---- MODULE Spec2Model ----
(***************************************************************************)
(* Asynchronous DNN inference stage of the dnn_processing filter.          *)
(*                                                                         *)
(* Two thread classes are modelled: the filter thread, which runs the     *)
(* stage adapter (activate / flush_frame / uninit) and, through it, the    *)
(* engine entry points (send_frame, get_frame, frame_queue_empty), and the *)
(* backend worker threads, which run the completion callbacks.             *)
(*                                                                         *)
(* The repository holds several engines; the model carries them side by    *)
(* side, selected by the variable engine:                                  *)
(*   "frame"  dnn_interface_send_frame + get_input_blob_ov +               *)
(*            ff_dnn_execute_model_async_ov(inference_ctx) +               *)
(*            completion_callback / InferenceCompletionCallback            *)
(*   "batch"  ff_dnn_execute_model_async_ov(in_frame, out_frame) +         *)
(*            ff_dnn_flush_ov + ff_dnn_get_async_result_ov +               *)
(*            completion_callback_batch_infer                              *)
(*   "isync"  the synchronous path of dnn_interface_send_frame             *)
(*   "fsync"  the synchronous path of activate (filter_frame)              *)
(*                                                                         *)
(* Frames are numbered 1, 2, ... in the order upstream delivers them; the  *)
(* number of a frame is also its presentation timestamp.                   *)
(***************************************************************************)
EXTENDS Integers, Sequences, FiniteSets, TLC

\* ---------------------------------------------------------------- bounds
MaxFrames == 3
MaxNireq == 2
MaxBatch == 2
MaxFaults == 1

VARIABLES
    engine,                 \* which engine the stage was configured with
    nireq,                  \* OVModel.num_reqs
    batch_size,             \* OVModel.batch_size
    request_ctx_q,          \* OVModel.request_ctx_q: FIFO of request slots
    num_processing_frames,  \* RequestContext.num_processing_frames
    processing_frame_array, \* RequestContext.processing_frame_array
    inference_ctx,          \* RequestContext.inference_ctx (frame engine)
    blob_name,              \* RequestContext.blob_name is set (not NULL)
    input_blob,             \* input tensor of each request, per batch index
    pending,                \* requests the backend owns, callback not yet run
    processing_frames,      \* ordered in-flight list of ProcessingFrame
    processed_frames,       \* processed-frame queue (output frames)
    already_flushed,        \* DnnProcessing3Context.already_flushed
    fpc,                    \* where the filter thread is
    caller,                 \* who called flush_frame: "activate" or "uninit"
    cur,                    \* frame being submitted by the filter thread
    blob_req,               \* slot whose input buffer get_input_blob returned
    rd,                     \* frame_queue_empty: operand already read
    nin,                    \* frames consumed from the input link so far
    accepted,               \* frames for which submit created an entry
    polled,                 \* everything poll has handed out, in order
    delivered,              \* frames forwarded downstream (ff_filter_frame)
    outlink_status,         \* "none", "eof" (ff_outlink_set_status), "error"
    last_ret,               \* result of the last poll call
    sync_blob,              \* input tensor of the synchronous infer request
    faults,                 \* backend failures so far, oldest first, by kind
    eof_pts,                \* pts of the end-of-stream status from upstream
    out_pts,                \* activate's out_pts, given to ff_outlink_set_status
    inlink,                 \* input link: format, w, h
    sws_uv_scale,           \* DnnProcessing3Context.sws_uv_scale is set
    backend_type,           \* InferenceParam.backend_type
    async,                  \* InferenceParam.async (the async option)
    execute_model_async,    \* DNNModule.execute_model_async
    async_run,              \* DnnInterface.async_run
    network_input,          \* input of the loaded network: precision, dims
    model_input,            \* DNNData filled by get_input
    check,                  \* config_input: result of check_modelinput_inlink
    cpc,                    \* where stage construction is
    options,                \* filter options: model, input, output, dnn_backend
    built,                  \* backends compiled in besides the native one
    loadable,               \* load_model can load the model file
    init_ret,               \* what init returned
    allocated,              \* engine objects that are allocated
    released_cb,            \* a completion callback ran on a released engine
    flag_access,            \* accesses to inference_done of appended entries
    mutex,                  \* owner of callback_mutex and of frame_q_mutex
    tpc,                    \* statement each thread is at (thread-level runs)
    treq,                   \* request whose callback a worker thread runs
    fslot,                  \* slot the filter thread holds popped off the FIFO
    eos,                    \* the filter thread has sent the flush dispatch
    in_freed                \* input frames the engine gave to av_frame_free

\* What the thread-level runs add to the engine's state.
lockVars == <<mutex, tpc, treq, fslot, eos>>

vars == <<engine, nireq, batch_size, request_ctx_q, num_processing_frames,
          processing_frame_array, inference_ctx, blob_name, input_blob, pending,
          processing_frames, processed_frames, already_flushed, fpc, caller,
          cur, blob_req, rd, nin, accepted, polled, delivered,
          outlink_status, last_ret, sync_blob, faults, eof_pts, out_pts,
          inlink, sws_uv_scale, backend_type, async, execute_model_async,
          async_run, network_input, model_input, check, cpc, options, built,
          loadable, init_ret, allocated, released_cb,
                   flag_access, lockVars, in_freed>>

\* What init reads and leaves behind.
initVars == <<options, built, loadable, init_ret, allocated>>

\* What construction and configuration set; constant while frames flow.
configVars == <<inlink, sws_uv_scale, backend_type, async,
                execute_model_async, async_run, network_input, model_input,
                check, cpc, options, built, loadable, init_ret, allocated>>

engineVars == <<request_ctx_q, num_processing_frames, processing_frame_array,
                inference_ctx, blob_name, input_blob, pending,
                processing_frames, processed_frames>>

Engines == {"frame", "batch", "isync", "fsync"}

\* Threads: the filter thread and one backend worker thread per request
\* slot.  Free is the owner of a mutex nobody holds.
Free == 0 - 1
FilterThread == MaxNireq + 1
Workers == 1..MaxNireq
Threads == {FilterThread} \cup Workers
Mutexes == {"callback_mutex", "frame_q_mutex"}
Slots == 1..MaxNireq
FrameIds == 1..MaxFrames

\* Pixel formats: the ones query_formats lists, and "OTHER" for any other.
PixFmts == {"RGB24", "BGR24", "GRAY8", "GRAYF32", "YUV420P", "YUV422P",
            "YUV444P", "YUV410P", "YUV411P", "OTHER"}

\* isPlanarYUV: not RGB and three components.
isPlanarYUV(pix_fmt) ==
    pix_fmt \in {"YUV420P", "YUV422P", "YUV444P", "YUV410P", "YUV411P"}

\* The U and V planes of an output frame: what they were produced from
\* (src, the input frame) and how ("copy", "scale"); "unwritten" for planes
\* of a fresh video buffer nothing was written to, "none" for a format
\* without U and V planes.
NoPlanes == [src |-> 0, how |-> "none"]
FreshPlanes(pix_fmt) ==
    IF isPlanarYUV(pix_fmt) THEN [src |-> 0, how |-> "unwritten"] ELSE NoPlanes

\* copy_uv_planes: verbatim copy when sws_uv_scale is not set, sws_scale of
\* the input planes otherwise.
copy_uv_planes(scale, in) ==
    [src |-> in, how |-> IF scale THEN "scale" ELSE "copy"]

\* An AVFrame produced by the stage: pts copied from the input frame it
\* belongs to, data computed from the tensor element that held frame `data`,
\* uv its U and V planes.
NULLFRAME == [pts |-> 0, data |-> 0, uv |-> NoPlanes]
OutFrame(p, d, uv) == [pts |-> p, data |-> d, uv |-> uv]

\* ------------------------------------------------------------ safe queue
SafeQueuePush(q, r) == Append(q, r)
SafeQueuePushFront(q, r) == <<r>> \o q
\* SafeQueuePop blocks while the queue is empty: callers guard on CanPop.
CanPop(q) == q # <<>>
SafeQueueFront(q) == Head(q)
SafeQueueRest(q) == Tail(q)

\* ------------------------------------------------------------- ProcessingFrame
ProcessingFrame(in, out) ==
    [frame_in |-> in, frame_out |-> out, inference_done |-> FALSE]

\* The entries PushOutput's loop moves: the entries at the head of the
\* in-flight list up to (not including) the first one that is not done.
ReadyFrames_any(l) ==
    {l[k].frame_in : k \in {i \in 1..Len(l) : l[i].inference_done}}

ReadyFrames(l) ==
    {l[k].frame_in :
        k \in {i \in 1..Len(l) : \A j \in 1..i : l[j].inference_done}}

\* PushOutput: move the ready entries to the processed queue (their output
\* frames, in list order) and pop them from the in-flight list.

\* A PushOutput that pops the head without looking at its done flag.
PushOutputProcessing_nocheck(l) ==
    IF l = <<>> THEN l ELSE Tail(l)

\* PushOutput, what it leaves in the in-flight list.
PushOutputProcessing(l) ==
    SelectSeq(l, LAMBDA e : e.frame_in \notin ReadyFrames(l))

\* A PushOutput that does not push the output frames of the entries it pops.
PushOutputProcessed_drop(l, p) == p

\* PushOutput, what it leaves in the processed queue.
PushOutputProcessed(l, p) ==
    LET moved == SelectSeq(l, LAMBDA e : e.frame_in \in ReadyFrames(l))
    IN p \o [i \in 1..Len(moved) |-> moved[i].frame_out]

\* post_proc without av_frame_copy_props.
post_proc_noprops(model_output, frame_in) ==
    OutFrame(0, model_output, FreshPlanes(inlink.format))

\* post_proc of the frame engine: a new output frame (ff_get_video_buffer)
\* carrying the input frame's properties (av_frame_copy_props) and the
\* converted model output (copy_from_dnn_to_frame, which writes plane 0).
post_proc(model_output, frame_in) ==
    OutFrame(frame_in, model_output, FreshPlanes(inlink.format))

\* The entry of frame f, marked done with output o.
MarkDone(l, f, o) ==
    [i \in 1..Len(l) |->
        IF l[i].frame_in = f
        THEN [l[i] EXCEPT !.inference_done = TRUE, !.frame_out = o]
        ELSE l[i]]

StreamInit ==
    /\ engine \in Engines
    /\ nireq \in 1..MaxNireq
    /\ batch_size \in 1..MaxBatch
    /\ (engine # "batch") => batch_size = 1
    /\ (engine \in {"isync", "fsync"}) => nireq = 1
    /\ request_ctx_q = [i \in 1..nireq |-> i]
    /\ num_processing_frames = [r \in Slots |-> 0]
    /\ processing_frame_array = [r \in Slots |-> <<>>]
    /\ inference_ctx = [r \in Slots |-> 0]
    /\ blob_name = [r \in Slots |-> FALSE]
    /\ input_blob = [r \in Slots |-> [b \in 1..MaxBatch |-> 0]]
    /\ pending = {}
    /\ processing_frames = <<>>
    /\ processed_frames = <<>>
    /\ already_flushed = FALSE
    /\ fpc = "idle"
    /\ caller = "none"
    /\ cur = 0
    /\ blob_req = 0
    /\ rd = [first |-> "none", val |-> 0]
    /\ nin = 0
    /\ accepted = <<>>
    /\ polled = <<>>
    /\ delivered = <<>>
    /\ outlink_status = "none"
    /\ last_ret = "none"
    /\ sync_blob = 0
    /\ faults = <<>>
    /\ eof_pts = 0
    /\ out_pts = 0
    /\ released_cb = FALSE
    /\ flag_access = {}
    /\ mutex = [m \in Mutexes |-> Free]
    /\ tpc = [t \in Threads |-> "idle"]
    /\ treq = [t \in Threads |-> 0]
    /\ fslot = 0
    /\ eos = FALSE
    /\ in_freed = <<>>

\* Frame width and height of the input link.
LinkW == 2
LinkH == 2

\* The state after dnn_interface_create, config_input and config_output
\* have succeeded, for an OpenVINO model with dynamic input dimensions.
Configured ==
    /\ inlink \in [format : {"RGB24", "YUV420P"}, w : {LinkW}, h : {LinkH}]
    /\ sws_uv_scale \in (IF isPlanarYUV(inlink.format) THEN BOOLEAN
                                                        ELSE {FALSE})
    /\ backend_type = "DNN_OV"
    /\ async = IF engine \in {"frame", "batch"} THEN 1 ELSE 0
    /\ execute_model_async = "set"
    /\ async_run = (engine \in {"frame", "batch"})
    /\ network_input = [precision |-> "FP32",
                        channels |-> IF inlink.format = "RGB24" THEN 3 ELSE 1,
                        height |-> -1, width |-> -1]
    /\ model_input = [dt |-> "DNN_FLOAT",
                      channels |-> network_input.channels,
                      height |-> -1, width |-> -1]
    /\ check = "0"
    /\ cpc = "done"

\* The engine objects dnn_interface_create allocates: the DnnInterface, the
\* DNNModule and the loaded model.
EngineObjects == {"dnn_interface", "dnn_module", "model"}

\* The state init leaves when it succeeded with the OpenVINO backend.
Initialised ==
    /\ options = [model_filename |-> TRUE, model_inputname |-> TRUE,
                  model_outputname |-> TRUE, dnn_backend |-> "DNN_OV"]
    /\ built = {"DNN_OV"}
    /\ loadable = TRUE
    /\ init_ret = "0"
    /\ allocated = EngineObjects

Init == StreamInit /\ Configured /\ Initialised

\* A backend call may fail while the fault budget lasts.  The kinds:
\*   "execute"      the synchronous inference (execute_model)
\*   "input_blob"   get_input_blob_common
\*   "dispatch"     ie_infer_request_infer_async
\*   "output_blob"  ie_infer_request_get_blob and the queries after it
\*   "post_proc"    the post-processing of a frame
Outcomes == IF Len(faults) < MaxFaults THEN {TRUE, FALSE} ELSE {TRUE}
Charge(ok, kind) == faults' = IF ok THEN faults ELSE Append(faults, kind)

\* ------------------------------------------------------------ submit side

\* activate: ff_inlink_consume_frame returned a frame and the stage calls
\* send_frame on it (async engines and the engine-level sync path).
activate_consume ==
    /\ fpc = "idle"
    /\ engine # "fsync"
    /\ outlink_status = "none"
    /\ nin < MaxFrames
    /\ nin' = nin + 1
    /\ cur' = nin + 1
    /\ fpc' = "send"
    /\ UNCHANGED <<engine, nireq, batch_size, engineVars, already_flushed,
                   caller, blob_req, rd, accepted, polled, delivered,
                   outlink_status, last_ret, sync_blob, faults>>
    /\ UNCHANGED <<configVars, eof_pts, out_pts, released_cb,
                   flag_access, lockVars, in_freed>>

\* What filter_frame forwards for frame f: the frame is copied into the
\* synchronous request's input, the model runs, the output takes f's props.
SyncOutput(f) ==
    OutFrame(f, f, IF isPlanarYUV(inlink.format)
                   THEN copy_uv_planes(sws_uv_scale, f)
                   ELSE FreshPlanes(inlink.format))

\* activate in sync mode: return filter_frame(inlink, in).
filter_frame ==
    /\ fpc = "idle"
    /\ engine = "fsync"
    /\ outlink_status = "none"
    /\ nin < MaxFrames
    /\ nin' = nin + 1
    /\ cur' = nin + 1
    /\ sync_blob' = nin + 1                   \* copy_from_frame_to_dnn
    /\ in_freed' = Append(in_freed, nin + 1)  \* av_frame_free(&in), every exit
    /\ \E ok \in Outcomes :                   \* execute_model
         /\ Charge(ok, "execute")
         /\ IF ok
            THEN /\ delivered' = Append(delivered, SyncOutput(nin + 1))
                 /\ accepted' = Append(accepted, nin + 1)
                 /\ UNCHANGED <<outlink_status, fpc>>
            ELSE /\ outlink_status' = "error"  \* AVERROR(EIO) ends the stream
                 /\ fpc' = "done"
                 /\ UNCHANGED <<delivered, accepted>>
    /\ UNCHANGED <<engine, nireq, batch_size, engineVars, already_flushed,
                   caller, blob_req, rd, polled, last_ret>>
    /\ UNCHANGED <<configVars, eof_pts, out_pts, released_cb,
                   flag_access, lockVars>>

\* ff_dnn_interface_send_frame when execute_model failed: the input frame is
\* freed before the error is returned; on every other path submit leaves the
\* frame alone.
ff_dnn_interface_send_frame_free(ok, f, freed) ==
    IF ok THEN freed ELSE Append(freed, f)

\* dnn_interface_send_frame with async_run = 0: get_input_blob, pre_proc,
\* execute_model on the synchronous infer request, post_proc, push_back.
dnn_interface_send_frame_sync ==
    /\ fpc = "send"
    /\ engine = "isync"
    /\ CanPop(request_ctx_q)
    /\ LET r == SafeQueueFront(request_ctx_q) IN
       /\ input_blob' = [input_blob EXCEPT ![r][1] = cur]      \* pre_proc
       /\ \E ok \in Outcomes :               \* execute_model, then post_proc
            /\ Charge(ok, "execute")
            /\ IF ok
               THEN /\ processed_frames' =
                        Append(processed_frames, post_proc(sync_blob, cur))
                    /\ accepted' = Append(accepted, cur)
               ELSE UNCHANGED <<processed_frames, accepted>>
            /\ in_freed' = ff_dnn_interface_send_frame_free(ok, cur, in_freed)
    /\ fpc' = "drain"
    /\ UNCHANGED <<engine, nireq, batch_size, request_ctx_q,
                   num_processing_frames, processing_frame_array,
                   inference_ctx, pending, processing_frames, already_flushed,
                   caller, cur, blob_req, rd, nin, polled, delivered,
                   outlink_status, last_ret, sync_blob>>
    /\ UNCHANGED <<configVars, eof_pts, out_pts, released_cb,
                   flag_access, lockVars>>
    /\ UNCHANGED blob_name

\* dnn_interface_send_frame with async_run = 1, up to the call of
\* execute_model_async: get_input_blob_ov pops the head slot (blocking) and
\* pushes it back to the front, pre_proc fills its input buffer, and a
\* ProcessingFrame is appended to the in-flight list under frame_q_mutex.
dnn_interface_send_frame ==
    /\ fpc = "send"
    /\ engine = "frame"
    /\ CanPop(request_ctx_q)
    /\ LET r == SafeQueueFront(request_ctx_q) IN
       /\ request_ctx_q' = SafeQueuePushFront(SafeQueueRest(request_ctx_q), r)
       /\ blob_req' = r
       /\ input_blob' = [input_blob EXCEPT ![r][1] = cur]
    /\ processing_frames' =
          Append(processing_frames, ProcessingFrame(cur, NULLFRAME))
    /\ accepted' = Append(accepted, cur)
    /\ fpc' = "exec"
    /\ UNCHANGED <<engine, nireq, batch_size, num_processing_frames,
                   processing_frame_array, inference_ctx, pending,
                   processed_frames, already_flushed, caller, cur, rd, nin,
                   polled, delivered, outlink_status, last_ret, sync_blob,
                   faults>>
    /\ UNCHANGED <<configVars, eof_pts, out_pts, released_cb,
                   flag_access, lockVars, in_freed>>
    /\ UNCHANGED blob_name

\* ff_dnn_execute_model_async_ov(model, inference_ctx, blob_name): pop a slot
\* (blocking), attach the inference context, start the asynchronous request.
\* The status of ie_infer_request_infer_async is not looked at: when the
\* start fails no callback will ever run for the slot.
ff_dnn_execute_model_async_ov_ictx ==
    /\ fpc = "exec"
    /\ engine = "frame"
    /\ CanPop(request_ctx_q)
    /\ LET r == SafeQueueFront(request_ctx_q) IN
       /\ request_ctx_q' = SafeQueueRest(request_ctx_q)
       /\ inference_ctx' = [inference_ctx EXCEPT ![r] = cur]
       /\ blob_name' = [blob_name EXCEPT ![r] = TRUE]
       /\ \E ok \in Outcomes :
            /\ Charge(ok, "dispatch")
            /\ pending' = IF ok THEN pending \cup {r} ELSE pending
    /\ fpc' = "drain"
    /\ UNCHANGED <<engine, nireq, batch_size, num_processing_frames,
                   processing_frame_array, input_blob, processing_frames,
                   processed_frames, already_flushed, caller, cur, blob_req,
                   rd, nin, accepted, polled, delivered, outlink_status,
                   last_ret, sync_blob>>
    /\ UNCHANGED <<configVars, eof_pts, out_pts, released_cb,
                   flag_access, lockVars, in_freed>>

\* The out_frame the caller of the batching submit passes in: a video
\* buffer with the input frame's properties and U and V planes.
CallerOutFrame(f) ==
    OutFrame(f, 0, IF isPlanarYUV(inlink.format)
                   THEN copy_uv_planes(sws_uv_scale, f)
                   ELSE FreshPlanes(inlink.format))

\* new_blob_by_batch_idx: the view of batch element batch_idx of a tensor,
\* data + batch_idx * channels * height * width * ele_size.  The tensors of
\* the model are sequences of batch elements, the first at index 1.
new_blob_by_batch_idx(batch_idx) == batch_idx + 1

\* A batching submit that starts the request at every frame added.
ff_dnn_execute_model_async_ov_eager ==
    /\ fpc = "send"
    /\ engine = "batch"
    /\ CanPop(request_ctx_q)
    /\ LET r == SafeQueueFront(request_ctx_q)
           idx == num_processing_frames[r]
       IN
       \E blob_ok \in Outcomes :             \* get_input_blob_common
         IF ~blob_ok
         THEN /\ Charge(FALSE, "input_blob")
              /\ request_ctx_q' =
                    SafeQueuePushFront(SafeQueueRest(request_ctx_q), r)
              /\ UNCHANGED <<num_processing_frames, processing_frame_array,
                             input_blob, pending, processing_frames, accepted,
                             blob_name>>
         ELSE
           \* new_blob_by_batch_idx + pre_proc
           /\ input_blob' =
                 [input_blob EXCEPT ![r][new_blob_by_batch_idx(idx)] = cur]
           \* create_and_enqueue_processing_frame
           /\ processing_frames' =
                 Append(processing_frames,
                        ProcessingFrame(cur, CallerOutFrame(cur)))
           /\ processing_frame_array' =
                 [processing_frame_array EXCEPT ![r] = Append(@, cur)]
           /\ num_processing_frames' =
                 [num_processing_frames EXCEPT ![r] = idx + 1]
           /\ accepted' = Append(accepted, cur)
           \* if (request_ctx->blob_name == NULL) blob_name = av_strdup(...)
           /\ blob_name' = [blob_name EXCEPT ![r] = TRUE]
           /\ IF idx + 1 >= 1
              THEN /\ request_ctx_q' = SafeQueueRest(request_ctx_q)
                   /\ \E ok \in Outcomes :  \* ie_infer_request_infer_async
                        /\ Charge(ok, "dispatch")
                        /\ pending' = IF ok THEN pending \cup {r} ELSE pending
              ELSE /\ request_ctx_q' =
                         SafeQueuePushFront(SafeQueueRest(request_ctx_q), r)
                   /\ UNCHANGED <<pending, faults>>
    /\ fpc' = "drain"
    /\ UNCHANGED <<engine, nireq, batch_size, inference_ctx, processed_frames,
                   already_flushed, caller, cur, blob_req, rd, nin, polled,
                   delivered, outlink_status, last_ret, sync_blob>>
    /\ UNCHANGED <<configVars, eof_pts, out_pts, released_cb,
                   flag_access, lockVars, in_freed>>

\* ff_dnn_execute_model_async_ov(model, input_name, in_frame, ..., out_frame):
\* the batching submit.
ff_dnn_execute_model_async_ov ==
    /\ fpc = "send"
    /\ engine = "batch"
    /\ CanPop(request_ctx_q)
    /\ LET r == SafeQueueFront(request_ctx_q)
           idx == num_processing_frames[r]
       IN
       \E blob_ok \in Outcomes :             \* get_input_blob_common
         IF ~blob_ok
         THEN /\ Charge(FALSE, "input_blob")
              /\ request_ctx_q' =
                    SafeQueuePushFront(SafeQueueRest(request_ctx_q), r)
              /\ UNCHANGED <<num_processing_frames, processing_frame_array,
                             input_blob, pending, processing_frames, accepted,
                             blob_name>>
         ELSE
           \* new_blob_by_batch_idx + pre_proc
           /\ input_blob' =
                 [input_blob EXCEPT ![r][new_blob_by_batch_idx(idx)] = cur]
           \* create_and_enqueue_processing_frame
           /\ processing_frames' =
                 Append(processing_frames,
                        ProcessingFrame(cur, CallerOutFrame(cur)))
           /\ processing_frame_array' =
                 [processing_frame_array EXCEPT ![r] = Append(@, cur)]
           /\ num_processing_frames' =
                 [num_processing_frames EXCEPT ![r] = idx + 1]
           /\ accepted' = Append(accepted, cur)
           \* if (request_ctx->blob_name == NULL) blob_name = av_strdup(...)
           /\ blob_name' = [blob_name EXCEPT ![r] = TRUE]
           /\ IF idx + 1 = batch_size
              THEN /\ request_ctx_q' = SafeQueueRest(request_ctx_q)
                   /\ \E ok \in Outcomes :  \* ie_infer_request_infer_async
                        /\ Charge(ok, "dispatch")
                        /\ pending' = IF ok THEN pending \cup {r} ELSE pending
              ELSE /\ request_ctx_q' =
                         SafeQueuePushFront(SafeQueueRest(request_ctx_q), r)
                   /\ UNCHANGED <<pending, faults>>
    /\ fpc' = "drain"
    /\ UNCHANGED <<engine, nireq, batch_size, inference_ctx, processed_frames,
                   already_flushed, caller, cur, blob_req, rd, nin, polled,
                   delivered, outlink_status, last_ret, sync_blob>>
    /\ UNCHANGED <<configVars, eof_pts, out_pts, released_cb,
                   flag_access, lockVars, in_freed>>

\* ---------------------------------------------------- completion callbacks

\* What a completion callback that gets as far as marking does to the done
\* flags: it writes inference_done = 1 of each entry it marks holding
\* callback_mutex only, then locks frame_q_mutex and, when the in-flight list
\* has entries, reads the flags of the entries at its head in the PushOutput
\* loop.
CallbackAccesses(marked, listed) ==
    {a \in {[op |-> "write", thread |-> "callback",
             held |-> {"callback_mutex"}],
            [op |-> "read", thread |-> "callback",
             held |-> {"callback_mutex", "frame_q_mutex"}]} :
        IF a.op = "write" THEN marked > 0 ELSE listed > 0}

CallbackOutcomes ==
    IF Len(faults) < MaxFaults THEN {"ok", "noblob", "postproc"} ELSE {"ok"}

\* InferenceCompletionCallback: post_proc, mark the entry done, PushOutput
\* under frame_q_mutex.  When post_proc fails it returns before marking.
InferenceCompletionCallback(l, f, model_output, post_ok) ==
    IF post_ok THEN MarkDone(l, f, post_proc(model_output, f)) ELSE l

\* completion_callback of the frame engine, run by a backend worker thread
\* under callback_mutex for a request whose inference finished.
completion_callback(r) ==
    /\ engine = "frame"
    /\ fpc # "closed"
    /\ r \in pending
    /\ pending' = pending \ {r}
    /\ \E o \in CallbackOutcomes :
         /\ Charge(o = "ok", IF o = "noblob" THEN "output_blob" ELSE "post_proc")
         /\ flag_access' = IF o = "ok"
                           THEN flag_access
                                \cup CallbackAccesses(1, Len(processing_frames))
                           ELSE flag_access
         /\ IF o = "noblob"
            THEN \* goto out: the callback is not called, the slot not returned
                 UNCHANGED <<processing_frames, processed_frames,
                             request_ctx_q, inference_ctx>>
            ELSE LET l == InferenceCompletionCallback(processing_frames,
                              inference_ctx[r], input_blob[r][1], o = "ok")
                 IN /\ processing_frames' =
                          IF o = "ok" THEN PushOutputProcessing(l) ELSE l
                    /\ processed_frames' =
                          IF o = "ok"
                          THEN PushOutputProcessed(l, processed_frames)
                          ELSE processed_frames
                    /\ inference_ctx' = [inference_ctx EXCEPT ![r] = 0]
                    /\ request_ctx_q' = SafeQueuePush(request_ctx_q, r)
    /\ UNCHANGED <<engine, nireq, batch_size, num_processing_frames,
                   processing_frame_array, input_blob, already_flushed, fpc,
                   caller, cur, blob_req, rd, nin, accepted, polled,
                   delivered, outlink_status, last_ret, sync_blob>>
    /\ UNCHANGED <<configVars, eof_pts, out_pts, released_cb>>
    /\ UNCHANGED blob_name
    /\ UNCHANGED <<lockVars, in_freed>>

\* Index of frame f in a slot's processing_frame_array, 0 when absent.
BatchIndex(arr, f) ==
    IF \E b \in 1..Len(arr) : arr[b] = f
    THEN CHOOSE b \in 1..Len(arr) : arr[b] = f
    ELSE 0

\* A post-processing loop that gives every packed entry batch element 0.
BatchPostProc_first(l, arr, blob) ==
    [i \in 1..Len(l) |->
        LET b == BatchIndex(arr, l[i].frame_in) IN
        IF b = 0 THEN l[i]
        ELSE [l[i] EXCEPT !.inference_done = TRUE,
                          !.frame_out.data = blob[new_blob_by_batch_idx(0)]]]
\* The post-processing loop of completion_callback_batch_infer: batch element
\* b of the output goes to the b-th packed entry, which is then marked done.
BatchPostProc(l, arr, blob) ==
    [i \in 1..Len(l) |->
        LET b == BatchIndex(arr, l[i].frame_in) IN
        IF b = 0 THEN l[i]
        ELSE [l[i] EXCEPT !.inference_done = TRUE,
                          !.frame_out.data =
                              blob[new_blob_by_batch_idx(b - 1)]]]

\* completion_callback_batch_infer returning its slot to the front of the FIFO.
completion_callback_batch_infer_front(r) ==
    /\ engine = "batch"
    /\ fpc # "closed"
    /\ r \in pending
    /\ pending' = pending \ {r}
    /\ \E o \in CallbackOutcomes \ {"postproc"} :
         /\ Charge(o = "ok", IF o = "noblob" THEN "output_blob" ELSE "post_proc")
         /\ flag_access' =
               IF o = "ok"
               THEN flag_access
                    \cup CallbackAccesses(num_processing_frames[r],
                                          Len(processing_frames))
               ELSE flag_access
         /\ IF o = "noblob"
            THEN \* goto out: nothing marked, nothing drained, slot not returned
                 UNCHANGED <<processing_frames, processed_frames,
                             request_ctx_q, num_processing_frames,
                             processing_frame_array, blob_name>>
            ELSE LET l == BatchPostProc(processing_frames,
                                        processing_frame_array[r],
                                        input_blob[r])
                 IN /\ processing_frames' = PushOutputProcessing(l)
                    /\ processed_frames' =
                          PushOutputProcessed(l, processed_frames)
                    /\ blob_name' = [blob_name EXCEPT ![r] = FALSE]
                    /\ num_processing_frames' =
                          [num_processing_frames EXCEPT ![r] = 0]
                    /\ processing_frame_array' =
                          [processing_frame_array EXCEPT ![r] = <<>>]
                    /\ request_ctx_q' = SafeQueuePushFront(request_ctx_q, r)
    /\ UNCHANGED <<engine, nireq, batch_size, inference_ctx, input_blob,
                   already_flushed, fpc, caller, cur, blob_req, rd, nin,
                   accepted, polled, delivered, outlink_status, last_ret,
                   sync_blob>>
    /\ UNCHANGED <<configVars, eof_pts, out_pts, released_cb>>
    /\ UNCHANGED <<lockVars, in_freed>>
\* completion_callback_batch_infer, run by a backend worker thread under
\* callback_mutex.
completion_callback_batch_infer(r) ==
    /\ engine = "batch"
    /\ fpc # "closed"
    /\ r \in pending
    /\ pending' = pending \ {r}
    /\ \E o \in CallbackOutcomes \ {"postproc"} :
         /\ Charge(o = "ok", IF o = "noblob" THEN "output_blob" ELSE "post_proc")
         /\ flag_access' =
               IF o = "ok"
               THEN flag_access
                    \cup CallbackAccesses(num_processing_frames[r],
                                          Len(processing_frames))
               ELSE flag_access
         /\ IF o = "noblob"
            THEN \* goto out: nothing marked, nothing drained, slot not returned
                 UNCHANGED <<processing_frames, processed_frames,
                             request_ctx_q, num_processing_frames,
                             processing_frame_array, blob_name>>
            ELSE LET l == BatchPostProc(processing_frames,
                                        processing_frame_array[r],
                                        input_blob[r])
                 IN /\ processing_frames' = PushOutputProcessing(l)
                    /\ processed_frames' =
                          PushOutputProcessed(l, processed_frames)
                    /\ blob_name' = [blob_name EXCEPT ![r] = FALSE]
                    /\ num_processing_frames' =
                          [num_processing_frames EXCEPT ![r] = 0]
                    /\ processing_frame_array' =
                          [processing_frame_array EXCEPT ![r] = <<>>]
                    /\ request_ctx_q' = SafeQueuePush(request_ctx_q, r)
    /\ UNCHANGED <<engine, nireq, batch_size, inference_ctx, input_blob,
                   already_flushed, fpc, caller, cur, blob_req, rd, nin,
                   accepted, polled, delivered, outlink_status, last_ret,
                   sync_blob>>
    /\ UNCHANGED <<configVars, eof_pts, out_pts, released_cb>>
    /\ UNCHANGED <<lockVars, in_freed>>

\* ------------------------------------------------------------------ poll

\* dnn_interface_get_frame: EAGAIN when the processed queue is empty,
\* otherwise the front of the processed queue is popped under frame_q_mutex.
dnn_interface_get_frame_ret(processed) ==
    IF processed = <<>> THEN "EAGAIN" ELSE "OK"

\* ff_dnn_get_async_result_ov, the poll of the batch engine: what it returns
\* for what its reads of the two lists gave.
ff_dnn_get_async_result_ov_ret(processing, processed) ==
    IF processed = <<>>
    THEN IF processing # <<>> THEN "DAST_NOT_READY" ELSE "DAST_EMPTY_QUEUE"
    ELSE "DAST_SUCCESS"

\* The first step of a poll call.  ff_dnn_get_async_result_ov reads the two
\* lists one after the other without frame_q_mutex: when it found the
\* processed queue empty the call goes on ("DAST_READING") to its read of
\* the in-flight list.
PollRet ==
    IF engine = "batch"
    THEN IF processed_frames = <<>>
         THEN "DAST_READING"
         ELSE ff_dnn_get_async_result_ov_ret(processing_frames,
                                             processed_frames)
    ELSE dnn_interface_get_frame_ret(processed_frames)

GotFrame(ret) == ret \in {"OK", "DAST_SUCCESS"}

\* A poll that hands out the front of the processed queue without popping it.
Poll_nopop(forward) ==
    /\ last_ret' = PollRet
    /\ IF GotFrame(PollRet)
       THEN /\ polled' = Append(polled, Head(processed_frames))
            /\ delivered' =
                 IF forward /\ Head(processed_frames) # NULLFRAME
                 THEN Append(delivered, Head(processed_frames))
                 ELSE delivered
            /\ UNCHANGED processed_frames
       ELSE UNCHANGED <<processed_frames, polled, delivered>>

\* One call of poll by the adapter; forward says whether a non-null output
\* is handed to ff_filter_frame (otherwise it is freed).
Poll(forward) ==
    /\ last_ret' = PollRet
    /\ IF GotFrame(PollRet)
       THEN /\ processed_frames' = Tail(processed_frames)
            /\ polled' = Append(polled, Head(processed_frames))
            /\ delivered' =
                 IF forward /\ Head(processed_frames) # NULLFRAME
                 THEN Append(delivered, Head(processed_frames))
                 ELSE delivered
       ELSE UNCHANGED <<processed_frames, polled, delivered>>

\* activate, inner loop: get_frame and forward while it returns a frame.
activate_drain ==
    /\ fpc = "drain"
    /\ Poll(TRUE)
    /\ fpc' = IF GotFrame(PollRet) THEN "drain"
              ELSE IF PollRet = "DAST_READING" THEN "drain2"
              ELSE "idle"
    /\ UNCHANGED <<engine, nireq, batch_size, request_ctx_q,
                   num_processing_frames, processing_frame_array,
                   inference_ctx, input_blob, pending, processing_frames,
                   already_flushed, caller, cur, blob_req, rd, nin, accepted,
                   outlink_status, sync_blob, faults>>
    /\ UNCHANGED <<configVars, eof_pts, out_pts, released_cb,
                   flag_access, lockVars, in_freed>>
    /\ UNCHANGED blob_name

\* ff_dnn_get_async_result_ov after it found the processed queue empty: the
\* read of the in-flight list and the return of DAST_NOT_READY or
\* DAST_EMPTY_QUEUE to the drain loop or the flush loop.
ff_dnn_get_async_result_ov_2 ==
    /\ fpc \in {"drain2", "fl_get2"}
    /\ last_ret' = ff_dnn_get_async_result_ov_ret(processing_frames, <<>>)
    /\ fpc' = IF fpc = "drain2" THEN "idle" ELSE "fl_check"
    /\ UNCHANGED <<engine, nireq, batch_size, engineVars, already_flushed,
                   caller, cur, blob_req, rd, nin, accepted, polled,
                   delivered, outlink_status, sync_blob, faults>>
    /\ UNCHANGED <<configVars, eof_pts, out_pts, released_cb,
                   flag_access, lockVars, in_freed>>

\* activate with no input frame queued (ret == 0): only the drain loop runs.
activate_poll ==
    /\ fpc = "idle"
    /\ engine # "fsync"
    /\ outlink_status = "none"
    /\ fpc' = "drain"
    /\ UNCHANGED <<engine, nireq, batch_size, engineVars, already_flushed,
                   caller, cur, blob_req, rd, nin, accepted, polled,
                   delivered, outlink_status, last_ret, sync_blob, faults>>
    /\ UNCHANGED <<configVars, eof_pts, out_pts, released_cb,
                   flag_access, lockVars, in_freed>>

\* ----------------------------------------------------------------- flush

\* What the caller of flush_frame does once flush_frame has returned:
\* activate sets end-of-stream on the output link, uninit releases the engine.
FlushReturn(c) ==
    IF c = "activate"
    THEN /\ outlink_status' = "eof"
         /\ fpc' = "done"
    ELSE /\ fpc' = "closed"
         /\ UNCHANGED outlink_status

\* A flush_frame that does not look at already_flushed.
flush_frame_unguarded(c) ==
    /\ caller' = c
    /\ fpc' = IF engine = "batch" THEN "fl_dispatch" ELSE "fl_check"
    /\ UNCHANGED outlink_status

\* Entry of flush_frame: return at once when already_flushed is set; the
\* batch engine first dispatches the head slot (ff_dnn_flush_ov).
flush_frame(c) ==
    IF already_flushed
    THEN /\ FlushReturn(c)
         /\ UNCHANGED caller
    ELSE /\ caller' = c
         /\ fpc' = IF engine = "batch" THEN "fl_dispatch" ELSE "fl_check"
         /\ UNCHANGED outlink_status

\* The timestamps an end-of-stream status from upstream can carry.
EofPts == {0, nin + 1}

\* activate: upstream end-of-stream acknowledged (status, pts); out_pts
\* starts as pts.
activate_eof ==
    /\ fpc = "idle"
    /\ outlink_status = "none"
    /\ \E pts \in EofPts : eof_pts' = pts /\ out_pts' = pts
    /\ IF engine = "fsync"
       THEN /\ outlink_status' = "eof"
            /\ fpc' = "done"
            /\ UNCHANGED caller
       ELSE flush_frame("activate")
    /\ UNCHANGED <<engine, nireq, batch_size, engineVars, already_flushed,
                   cur, blob_req, rd, nin, accepted, polled, delivered,
                   last_ret, sync_blob, faults>>
    /\ UNCHANGED <<configVars, released_cb,
                   flag_access, lockVars, in_freed>>

\* uninit: flush_frame(ctx, NULL, 0, NULL), then release.  The filter whose
\* sync path is filter_frame releases without flushing.
uninit ==
    /\ fpc \in {"idle", "done"}
    /\ IF engine = "fsync"
       THEN /\ fpc' = "closed"
            /\ UNCHANGED <<caller, outlink_status>>
       ELSE flush_frame("uninit")
    /\ UNCHANGED <<engine, nireq, batch_size, engineVars, already_flushed,
                   cur, blob_req, rd, nin, accepted, polled, delivered,
                   last_ret, sync_blob, faults>>
    /\ UNCHANGED <<configVars, eof_pts, out_pts, released_cb,
                   flag_access, lockVars, in_freed>>

\* uninit of the filter in part_000: dnn_interface_release without a flush,
\* whatever is in flight.
uninit_release ==
    /\ fpc \in {"idle", "done"}
    /\ engine = "frame"
    /\ fpc' = "closed"
    /\ UNCHANGED <<engine, nireq, batch_size, engineVars, already_flushed,
                   caller, cur, blob_req, rd, nin, accepted, polled,
                   delivered, outlink_status, last_ret, sync_blob, faults>>
    /\ UNCHANGED <<configVars, eof_pts, out_pts, released_cb,
                   flag_access, lockVars, in_freed>>

\* The backend finishes a request it still owns after dnn_interface_release:
\* the completion callback runs on the freed lists and the destroyed mutex.
completion_callback_released(r) ==
    /\ fpc = "closed"
    /\ r \in pending
    /\ pending' = pending \ {r}
    /\ released_cb' = TRUE
    /\ UNCHANGED <<engine, nireq, batch_size, request_ctx_q,
                   num_processing_frames, processing_frame_array,
                   inference_ctx, input_blob, processing_frames,
                   processed_frames, already_flushed, fpc, caller, cur,
                   blob_req, rd, nin, accepted, polled, delivered,
                   outlink_status, last_ret, sync_blob, faults>>
    /\ UNCHANGED <<configVars, eof_pts, out_pts>>
    /\ UNCHANGED blob_name
    /\ UNCHANGED flag_access
    /\ UNCHANGED <<lockVars, in_freed>>

\* ff_dnn_flush_ov: pop the head slot (blocking) and start it whatever its
\* fill level.
ff_dnn_flush_ov ==
    /\ fpc = "fl_dispatch"
    /\ CanPop(request_ctx_q)
    /\ LET r == SafeQueueFront(request_ctx_q) IN
       /\ request_ctx_q' = SafeQueueRest(request_ctx_q)
       /\ \E ok \in Outcomes :
            /\ Charge(ok, "dispatch")
            /\ pending' = IF ok THEN pending \cup {r} ELSE pending
    /\ fpc' = "fl_check"
    /\ UNCHANGED <<engine, nireq, batch_size, num_processing_frames,
                   processing_frame_array, inference_ctx, input_blob,
                   processing_frames, processed_frames, already_flushed,
                   caller, cur, blob_req, rd, nin, accepted, polled,
                   delivered, outlink_status, last_ret, sync_blob>>
    /\ UNCHANGED <<configVars, eof_pts, out_pts, released_cb,
                   flag_access, lockVars, in_freed>>
    /\ UNCHANGED blob_name

\* The loop test of flush_frame with the result of frame_queue_empty.
FlushLoopTest(empty) ==
    IF empty
    THEN /\ already_flushed' = TRUE
         /\ FlushReturn(caller)
    ELSE /\ fpc' = "fl_get"
         /\ UNCHANGED <<already_flushed, outlink_status>>

\* is_empty of the batch engine: both lists empty.
is_empty(processing, processed) == processing = <<>> /\ processed = <<>>

\* dnn_interface_frame_queue_empty.  In sync mode one read of the processed
\* queue.  In async mode out->size(out) + pro->size(pro) == 0: two reads
\* without frame_q_mutex, in an order the language leaves to the compiler;
\* this step is the first read.
dnn_interface_frame_queue_empty ==
    /\ fpc = "fl_check"
    /\ IF engine \in {"isync", "fsync"}
       THEN /\ FlushLoopTest(processed_frames = <<>>)
            /\ UNCHANGED rd
       ELSE IF engine = "batch"
       THEN /\ FlushLoopTest(is_empty(processing_frames, processed_frames))
            /\ UNCHANGED rd
       ELSE /\ \E o \in {"out", "pro"} :
                 rd' = [first |-> o,
                        val |-> IF o = "out" THEN Len(processing_frames)
                                ELSE Len(processed_frames)]
            /\ fpc' = "fl_check2"
            /\ UNCHANGED <<already_flushed, outlink_status>>
    /\ UNCHANGED <<engine, nireq, batch_size, engineVars, caller, cur,
                   blob_req, nin, accepted, polled, delivered, last_ret,
                   sync_blob, faults>>
    /\ UNCHANGED <<configVars, eof_pts, out_pts, released_cb,
                   flag_access, lockVars, in_freed>>

\* Second read of dnn_interface_frame_queue_empty and the comparison with 0.
dnn_interface_frame_queue_empty_2 ==
    /\ fpc = "fl_check2"
    /\ LET other == IF rd.first = "out" THEN Len(processed_frames)
                    ELSE Len(processing_frames)
       IN FlushLoopTest(rd.val + other = 0)
    /\ rd' = [first |-> "none", val |-> 0]
    /\ UNCHANGED <<engine, nireq, batch_size, engineVars, caller, cur,
                   blob_req, nin, accepted, polled, delivered, last_ret,
                   sync_blob, faults>>
    /\ UNCHANGED <<configVars, eof_pts, out_pts, released_cb,
                   flag_access, lockVars, in_freed>>

\* Body of the flush_frame loop: get_frame, forward (or free when the
\* output link is NULL), sleep.
flush_get_frame ==
    /\ fpc = "fl_get"
    /\ Poll(caller = "activate")
    /\ out_pts' = IF delivered' # delivered    \* *out_pts = output->pts + pts
                  THEN Head(processed_frames).pts + eof_pts
                  ELSE out_pts
    /\ UNCHANGED eof_pts
    /\ fpc' = IF PollRet = "DAST_READING" THEN "fl_get2" ELSE "fl_check"
    /\ UNCHANGED <<engine, nireq, batch_size, request_ctx_q,
                   num_processing_frames, processing_frame_array,
                   inference_ctx, input_blob, pending, processing_frames,
                   already_flushed, caller, cur, blob_req, rd, nin, accepted,
                   outlink_status, sync_blob, faults>>
    /\ UNCHANGED <<configVars, released_cb,
                   flag_access, lockVars, in_freed>>
    /\ UNCHANGED blob_name

\* ------------------------------------------------------------- specification

Next ==
    \/ activate_consume
    \/ filter_frame
    \/ dnn_interface_send_frame_sync
    \/ dnn_interface_send_frame
    \/ ff_dnn_execute_model_async_ov_ictx
    \/ ff_dnn_execute_model_async_ov
    \/ \E r \in Slots : completion_callback(r)
    \/ \E r \in Slots : completion_callback_batch_infer(r)
    \/ activate_drain
    \/ ff_dnn_get_async_result_ov_2
    \/ activate_poll
    \/ activate_eof
    \/ uninit
    \/ uninit_release
    \/ \E r \in Slots : completion_callback_released(r)
    \/ ff_dnn_flush_ov
    \/ dnn_interface_frame_queue_empty
    \/ dnn_interface_frame_queue_empty_2
    \/ flush_get_frame

Spec == Init /\ [][Next]_vars

\* The filter thread keeps running its flush loop, and the backend runs the
\* completion callback of every request it accepted (backend contract).
FlushStep ==
    \/ ff_dnn_flush_ov
    \/ dnn_interface_frame_queue_empty
    \/ dnn_interface_frame_queue_empty_2
    \/ flush_get_frame
    \/ ff_dnn_get_async_result_ov_2

FairSpec ==
    /\ Spec
    /\ WF_vars(FlushStep)
    /\ \A r \in Slots : WF_vars(completion_callback(r))
    /\ \A r \in Slots : WF_vars(completion_callback_batch_infer(r))

TypeOK ==
    /\ engine \in Engines
    /\ Len(processing_frames) <= MaxFrames
    /\ Len(processed_frames) <= MaxFrames
    /\ pending \subseteq 1..nireq

Async == engine \in {"frame", "batch"}

\* ------------------------------------------ construction and configuration

BackendTypes == {"DNN_NATIVE", "DNN_TF", "DNN_OV"}

\* ff_get_dnn_module: the module is av_malloc'ed and only the OpenVINO case
\* assigns execute_model_async; for the other backends the field keeps what
\* the allocation held (held: "null" or "garbage").
ff_get_dnn_module(type, held) == IF type = "DNN_OV" THEN "set" ELSE held

\* dnn_interface_create: async_run = execute_model_async && param.async.
dnn_interface_create ==
    /\ cpc = "create"
    /\ \E held \in {"null", "garbage"} :
         /\ execute_model_async' = ff_get_dnn_module(backend_type, held)
         /\ async_run' = (execute_model_async' # "null" /\ async # 0)
    /\ cpc' = "config"
    /\ UNCHANGED <<engine, nireq, batch_size, engineVars, already_flushed,
                   fpc, caller, cur, blob_req, rd, nin, accepted, polled,
                   delivered, outlink_status, last_ret, sync_blob, faults,
                   eof_pts, out_pts, inlink, sws_uv_scale, backend_type,
                   async, network_input, model_input, check, initVars,
                   released_cb,
                   flag_access, lockVars, in_freed>>

\* precision_to_datatype: FP32 gives DNN_FLOAT, anything else fails
\* av_assert0 and aborts the process.
precision_to_datatype(precision) ==
    IF precision = "FP32" THEN "DNN_FLOAT" ELSE "abort"

\* get_input_ov: the descriptor of the network input.
get_input_ov(net) ==
    [dt |-> precision_to_datatype(net.precision), channels |-> net.channels,
     height |-> net.height, width |-> net.width]

\* get_input of the other backends: the descriptor with the element type
\* of the model.
get_input_other(net) ==
    [dt |-> IF net.precision = "FP32" THEN "DNN_FLOAT" ELSE "DNN_UINT8",
     channels |-> net.channels, height |-> net.height, width |-> net.width]

\* check_modelinput_inlink without the tests on the channel count.
check_modelinput_inlink_nochannels(mi, link) ==
    IF mi.height # -1 /\ mi.height # link.h THEN "EIO"
    ELSE IF mi.width # -1 /\ mi.width # link.w THEN "EIO"
    ELSE IF link.format \in {"RGB24", "BGR24"}
    THEN IF mi.dt # "DNN_FLOAT" /\ mi.dt # "DNN_UINT8" THEN "EIO" ELSE "0"
    ELSE IF link.format = "GRAY8"
    THEN IF mi.dt # "DNN_UINT8" THEN "EIO" ELSE "0"
    ELSE IF link.format = "GRAYF32" \/ isPlanarYUV(link.format)
    THEN IF mi.dt # "DNN_FLOAT" THEN "EIO" ELSE "0"
    ELSE "EIO"

\* check_modelinput_inlink: "0" to accept, "EIO" for AVERROR(EIO).
check_modelinput_inlink(mi, link) ==
    IF mi.height # -1 /\ mi.height # link.h THEN "EIO"
    ELSE IF mi.width # -1 /\ mi.width # link.w THEN "EIO"
    ELSE IF link.format \in {"RGB24", "BGR24"}
    THEN IF mi.channels # 3 THEN "EIO"
         ELSE IF mi.dt # "DNN_FLOAT" /\ mi.dt # "DNN_UINT8" THEN "EIO"
         ELSE "0"
    ELSE IF link.format = "GRAY8"
    THEN IF mi.channels # 1 THEN "EIO"
         ELSE IF mi.dt # "DNN_UINT8" THEN "EIO"
         ELSE "0"
    ELSE IF link.format \in {"GRAYF32", "YUV420P", "YUV422P", "YUV444P",
                             "YUV410P", "YUV411P"}
    THEN IF mi.channels # 1 THEN "EIO"
         ELSE IF mi.dt # "DNN_FLOAT" THEN "EIO"
         ELSE "0"
    ELSE "EIO"

\* config_input: get_input, then check_modelinput_inlink.
config_input ==
    /\ cpc = "config"
    /\ LET got == IF backend_type = "DNN_OV" THEN get_input_ov(network_input)
                  ELSE get_input_other(network_input)
       IN IF got.dt = "abort"
          THEN /\ check' = "abort"
               /\ UNCHANGED model_input
          ELSE /\ model_input' = got
               /\ check' = check_modelinput_inlink(got, inlink)
    /\ cpc' = "done"
    /\ UNCHANGED <<engine, nireq, batch_size, engineVars, already_flushed,
                   fpc, caller, cur, blob_req, rd, nin, accepted, polled,
                   delivered, outlink_status, last_ret, sync_blob, faults,
                   eof_pts, out_pts, inlink, sws_uv_scale, backend_type,
                   async, execute_model_async, async_run, network_input,
                   initVars, released_cb,
                   flag_access, lockVars, in_freed>>

\* Construction and configuration for every backend, input link format and
\* network input.
ConfigInit ==
    /\ StreamInit
    /\ engine = "fsync"
    /\ inlink \in [format : PixFmts, w : {LinkW}, h : {LinkH}]
    /\ sws_uv_scale = FALSE
    /\ backend_type \in BackendTypes
    /\ async \in {0, 1}
    /\ execute_model_async = "unset"
    /\ async_run = FALSE
    /\ network_input \in [precision : {"FP32", "U8"}, channels : {1, 3},
                          height : {-1, LinkH, LinkH + 1},
                          width : {-1, LinkW, LinkW + 1}]
    /\ model_input = [dt |-> "none", channels |-> 0, height |-> 0,
                      width |-> 0]
    /\ check = "none"
    /\ cpc = "create"
    /\ Initialised

ConfigNext == dnn_interface_create \/ config_input

ConfigSpec == ConfigInit /\ [][ConfigNext]_vars

\* ------------------------------------------------------------- stage init

\* ff_get_dnn_module returns NULL for a backend that is not compiled in.
ModuleAvailable(type) == type = "DNN_NATIVE" \/ type \in built

\* init of the filter: the three name options are checked, then
\* dnn_interface_create is called with param.backend_type = DNN_OV whatever
\* the dnn_backend option says.  When ff_get_dnn_module or load_model fails,
\* dnn_interface_create frees what it allocated and returns NULL.
init ==
    /\ cpc = "init"
    /\ IF \/ ~options.model_filename
          \/ ~options.model_inputname
          \/ ~options.model_outputname
       THEN /\ init_ret' = "EINVAL"
            /\ allocated' = {}
            /\ cpc' = "failed"
            /\ UNCHANGED <<backend_type, execute_model_async, async_run>>
       ELSE /\ backend_type' = "DNN_OV"
            /\ IF ModuleAvailable("DNN_OV") /\ loadable
               THEN /\ execute_model_async' = ff_get_dnn_module("DNN_OV", "null")
                    /\ async_run' = (execute_model_async' # "null" /\ async # 0)
                    /\ allocated' = EngineObjects
                    /\ init_ret' = "0"
                    /\ cpc' = "config"
               ELSE /\ allocated' = {}
                    /\ init_ret' = "EINVAL"
                    /\ cpc' = "failed"
                    /\ UNCHANGED <<execute_model_async, async_run>>
    /\ UNCHANGED <<engine, nireq, batch_size, engineVars, already_flushed,
                   fpc, caller, cur, blob_req, rd, nin, accepted, polled,
                   delivered, outlink_status, last_ret, sync_blob, faults,
                   eof_pts, out_pts, inlink, sws_uv_scale, async,
                   network_input, model_input, check, options, built,
                   loadable, released_cb,
                   flag_access, lockVars, in_freed>>

\* The stage before init, for every setting of the options, every build and
\* a model file that can or cannot be loaded.
InitInit ==
    /\ StreamInit
    /\ engine = "fsync"
    /\ inlink \in [format : {"RGB24", "GRAY8"}, w : {LinkW}, h : {LinkH}]
    /\ sws_uv_scale = FALSE
    /\ backend_type = "DNN_NATIVE"
    /\ async \in {0, 1}
    /\ execute_model_async = "unset"
    /\ async_run = FALSE
    /\ network_input = [precision |-> "FP32", channels |-> 3,
                        height |-> -1, width |-> -1]
    /\ model_input = [dt |-> "none", channels |-> 0, height |-> 0,
                      width |-> 0]
    /\ check = "none"
    /\ cpc = "init"
    /\ options \in [model_filename : BOOLEAN, model_inputname : BOOLEAN,
                     model_outputname : BOOLEAN, dnn_backend : BackendTypes]
    /\ built \in SUBSET {"DNN_TF", "DNN_OV"}
    /\ loadable \in BOOLEAN
    /\ init_ret = "none"
    /\ allocated = {}

InitNext == init \/ config_input

InitSpec == InitInit /\ [][InitNext]_vars

\* ------------------------------------------------------------------ claims

SubmitStep ==
    \/ dnn_interface_send_frame
    \/ ff_dnn_execute_model_async_ov_ictx
    \/ ff_dnn_execute_model_async_ov

PollStep == activate_drain \/ flush_get_frame

\* C1: in async mode what poll has handed out is at every moment a prefix of
\* the sequence of frames submit has enqueued, whatever the order in which
\* the completion callbacks fire.
C1_OutputOrder ==
    Async =>
        /\ Len(polled) <= Len(accepted)
        /\ \A i \in 1..Len(polled) : polled[i].pts = accepted[i]

\* C1 witness: poll has handed out a frame while a later entry of the
\* in-flight list completed before an earlier one.
C1_Witness ==
    /\ Async
    /\ polled # <<>>
    /\ \E i, j \in 1..Len(processing_frames) :
          /\ i < j
          /\ ~processing_frames[i].inference_done
          /\ processing_frames[j].inference_done

\* C2: once flush has returned in async mode, the poll results correspond
\* one-to-one with the submitted frames in submission order, an errored frame
\* appearing as a null output at its own position.
C2_FlushOneToOne ==
    (Async /\ already_flushed) =>
        /\ Len(polled) = nin
        /\ \A i \in 1..nin : polled[i] = NULLFRAME \/ polled[i].pts = i

\* C3: with a backend that never fails, once the async stage has signalled
\* end of stream it has delivered downstream exactly what the sync stage
\* (filter_frame) delivers for the same input.
C3_AsyncEqualsSync ==
    (Async /\ outlink_status = "eof" /\ faults = <<>>) =>
        delivered = [i \in 1..nin |-> SyncOutput(i)]

\* C4: in async mode, with no backend failure so far, a submit call in
\* progress can always take its next step without a completion callback
\* running first, also when every request slot is dispatched.
C4_SubmitNeverWaits ==
    (Async /\ fpc \in {"send", "exec"} /\ faults = <<>>) => ENABLED SubmitStep

\* Wherever the filter thread is about to poll, the poll step is enabled.
PollNeverWaits == fpc \in {"drain", "fl_get"} => ENABLED PollStep

NoDispatchFault == \A i \in 1..Len(faults) : faults[i] # "dispatch"

\* C6: when every dispatched request's completion callback fires, a flush
\* that has been entered returns (already_flushed is set), also when a
\* callback fails in output-blob retrieval or in post-processing.
C6_FlushTerminates ==
    (fpc \in {"fl_dispatch", "fl_check"} /\ NoDispatchFault)
        ~> (already_flushed \/ ~NoDispatchFault)

\* C7: a flush call made after a first flush has returned comes back at
\* once and changes neither the engine state nor what was handed out or
\* forwarded downstream.
C7_FlushAtMostOnce ==
    [][(already_flushed /\ (uninit \/ activate_eof)) =>
          /\ fpc' \in {"done", "closed"}
          /\ UNCHANGED <<engineVars, already_flushed, polled, delivered>>]_vars

\* C7 witness: end-of-stream handling flushed and forwarded frames, then
\* teardown called flush again and released the engine.
C7_Witness ==
    /\ Async
    /\ already_flushed
    /\ outlink_status = "eof"
    /\ delivered # <<>>
    /\ fpc = "closed"

\* A call of frame_queue_empty returns (its last step).
IsEmptyReturn ==
    /\ dnn_interface_frame_queue_empty \/ dnn_interface_frame_queue_empty_2
    /\ fpc' # "fl_check2"

\* C8: frame_queue_empty returns true exactly when, at its return, the
\* in-flight list and the processed queue are both empty (sync mode: the
\* processed queue is empty), under every interleaving with the callbacks.
C8_IsEmptyExact ==
    [][IsEmptyReturn =>
          (already_flushed' <=>
              IF Async
              THEN processing_frames = <<>> /\ processed_frames = <<>>
              ELSE processed_frames = <<>>)]_vars

\* The frames packed into request slot r.
Packed(r) ==
    IF engine = "batch"
    THEN {processing_frame_array[r][b] :
             b \in 1..Len(processing_frame_array[r])}
    ELSE {inference_ctx[r]}

\* No entry of the frames in set fs is left not done in in-flight list l.
NoneLeftUndone(l, fs) ==
    \A i \in 1..Len(l) : l[i].frame_in \in fs => l[i].inference_done

InQueue(q, r) == \E i \in 1..Len(q) : q[i] = r

\* C9: when the asynchronous start of a request fails, the step that made
\* the start leaves the slot in the pool and leaves none of the entries
\* packed into it not done.
C9_DispatchFailure ==
    [][faults' = Append(faults, "dispatch") =>
          LET r == Head(request_ctx_q) IN
          /\ InQueue(request_ctx_q', r)
          /\ NoneLeftUndone(processing_frames', Packed(r)')]_vars

\* C10: when a completion callback fails (output blob or post-processing),
\* it leaves none of the entries of its request not done.
C10_CallbackFailure ==
    [][(\E k \in {"output_blob", "post_proc"} : faults' = Append(faults, k)) =>
          \A r \in pending \ pending' :
              NoneLeftUndone(processing_frames', Packed(r))]_vars

\* C11: a frame whose inference failed does not hold back the others: when
\* no completion callback is outstanding, no completed entry is still waiting
\* in the in-flight list behind an entry that will never complete, so poll
\* can hand on every frame submitted before and after the failed one.
C11_ErrorDoesNotBlock ==
    (Async /\ pending = {}) =>
        \A i \in 1..Len(processing_frames) :
            ~processing_frames[i].inference_done

\* C12: the end-of-stream timestamp handed downstream (out_pts) is the
\* upstream end-of-stream timestamp when end of stream is acknowledged, and
\* becomes the pts of each frame the flush of end-of-stream handling forwards,
\* so it ends as the pts of the last frame drained.
C12_EofTimestamp ==
    [][/\ activate_eof => out_pts' = eof_pts'
       /\ (flush_get_frame /\ caller = "activate") =>
             out_pts' = IF delivered' # delivered
                        THEN delivered'[Len(delivered')].pts
                        ELSE out_pts]_vars

\* C13: once end-of-stream has been set on the output link, no submitted
\* frame remains inside the engine (neither in the in-flight list nor in the
\* processed queue).
C13_EofAfterDrain ==
    (outlink_status = "eof") =>
        /\ processing_frames = <<>>
        /\ processed_frames = <<>>

\* C14: in sync mode a successful submit appends exactly one output frame,
\* the inference of the frame just preprocessed, to the processed queue,
\* creates no in-flight entry, and leaves the request pool (the FIFO and the
\* slots' buffers and counters) as it was.
C14_SyncSubmit ==
    [][(dnn_interface_send_frame_sync /\ accepted' # accepted) =>
          /\ Len(processed_frames') = Len(processed_frames) + 1
          /\ processed_frames'[Len(processed_frames')].data = cur
          /\ processing_frames' = processing_frames
          /\ UNCHANGED <<request_ctx_q, num_processing_frames,
                         processing_frame_array, inference_ctx, input_blob,
                         pending>>]_vars

\* C15: in async mode every request slot is at every moment either in the
\* FIFO (free or being filled), exactly once, or dispatched with its
\* callback pending, and never both.
C15_PoolNeverLeaks ==
    Async =>
        \A r \in 1..nireq :
            /\ InQueue(request_ctx_q, r) # (r \in pending)
            /\ Cardinality({i \in 1..Len(request_ctx_q) :
                               request_ctx_q[i] = r}) <= 1

\* The combinations the validation is to accept: model height and width -1
\* or equal to the link's, and format, channel count and element type
\* as in the format table.
Accepts(mi, link) ==
    /\ mi.height = -1 \/ mi.height = link.h
    /\ mi.width = -1 \/ mi.width = link.w
    /\ \/ /\ link.format \in {"RGB24", "BGR24"}
          /\ mi.channels = 3
          /\ mi.dt \in {"DNN_FLOAT", "DNN_UINT8"}
       \/ /\ link.format = "GRAY8"
          /\ mi.channels = 1
          /\ mi.dt = "DNN_UINT8"
       \/ /\ link.format \in {"GRAYF32", "YUV420P", "YUV422P", "YUV444P",
                              "YUV410P", "YUV411P"}
          /\ mi.channels = 1
          /\ mi.dt = "DNN_FLOAT"

\* C16: config-time validation accepts exactly the combinations of the
\* format table with matching or dynamic dimensions, and rejects every
\* other combination with an error.
C16_ConfigValidation ==
    (cpc = "done" /\ check # "abort") =>
        /\ check \in {"0", "EIO"}
        /\ check = "0" <=> Accepts(model_input, inlink)

\* C16 witness: an RGB24 link with a one-channel model was rejected.
C16_Witness ==
    /\ cpc = "done"
    /\ inlink.format = "RGB24"
    /\ model_input.channels = 1
    /\ check = "EIO"

\* C17: for a model whose input element type is UINT8 the OpenVINO input
\* descriptor query completes without an assertion failure and reports
\* UINT8, so that a GRAY8 stream can pass the validation.
C17_Uint8Descriptor ==
    (cpc = "done" /\ backend_type = "DNN_OV"
                  /\ network_input.precision = "U8") =>
        /\ check # "abort"
        /\ model_input.dt = "DNN_UINT8"

\* C18: every output frame of a planar YUV stream, in sync and in async mode,
\* has U and V planes made from those of its input frame, copied when the
\* sizes agree and rescaled otherwise; none has planes that were never
\* written.
C18_UVPlanes ==
    isPlanarYUV(inlink.format) =>
        \A i \in 1..Len(delivered) :
            delivered[i].uv = copy_uv_planes(sws_uv_scale, delivered[i].pts)

\* C19: every output frame carries the timestamp and props of the input frame
\* at the same submission position: when an in-flight entry is marked done,
\* when poll returns it, and when the synchronous filter hands it on.
C19_PtsCopied ==
    /\ \A i \in 1..Len(processing_frames) :
          processing_frames[i].inference_done =>
              processing_frames[i].frame_out.pts = processing_frames[i].frame_in
    /\ \A i \in 1..Len(polled) :
          /\ i <= Len(accepted)
          /\ polled[i].pts = accepted[i]
    /\ engine = "fsync" =>
          \A i \in 1..Len(delivered) :
              /\ i <= Len(accepted)
              /\ delivered[i].pts = accepted[i]

\* C19 witness: in async mode poll has returned the output of the second
\* submitted frame, made by post_proc from that frame's model output.
C19_Witness ==
    /\ engine = "frame"
    /\ Len(polled) >= 2
    /\ polled[2].data = accepted[2]
    /\ polled[2].pts = accepted[2]

\* C20: the async path is taken iff the backend provides execute_async and
\* the async option is 1; NATIVE and TENSORFLOW take the sync path even with
\* async = 1, and OPENVINO takes it with async = 0.
C20_AsyncPathChoice ==
    cpc # "create" => (async_run <=> (backend_type = "DNN_OV" /\ async = 1))

\* The cases in which init has to fail: an option is missing, the backend
\* asked for is not available, or the model cannot be loaded.
InitMustFail ==
    \/ ~options.model_filename
    \/ ~options.model_inputname
    \/ ~options.model_outputname
    \/ ~ModuleAvailable(options.dnn_backend)
    \/ ~loadable

\* C21: init fails whenever the model path, the input name or the output
\* name is missing, the requested backend is unavailable or the model cannot
\* be loaded, and after a failed init no engine object is allocated.
C21_InitFails ==
    cpc # "init" =>
        /\ InitMustFail => init_ret # "0"
        /\ init_ret # "0" => allocated = {}

\* C22: when the stage has been torn down no in-flight entry and no output
\* frame is left, the backend owns no request any more, and no completion
\* callback has run on the released engine.
C22_TeardownDrain ==
    /\ ~released_cb
    /\ fpc = "closed" =>
          /\ processing_frames = <<>>
          /\ processed_frames = <<>>
          /\ pending = {}

\* C23: ff_dnn_get_async_result_ov returns DAST_EMPTY_QUEUE only when, at
\* its return, the in-flight list and the processed queue are both empty,
\* and DAST_NOT_READY only when the in-flight list is not empty and nothing
\* is processed, whatever callbacks ran during the call.
C23_PollStatus ==
    [][ff_dnn_get_async_result_ov_2 =>
          /\ last_ret' = "DAST_EMPTY_QUEUE" =>
                (processing_frames = <<>> /\ processed_frames = <<>>)
          /\ last_ret' = "DAST_NOT_READY" =>
                (processing_frames # <<>> /\ processed_frames = <<>>)]_vars

\* The input frames of the entries of in-flight list l, in list order.
FramesIn(l) == [i \in 1..Len(l) |-> l[i].frame_in]

\* Sequence s is sequence t with its first k elements dropped, or that with
\* one more element at the end.
DropsHead(s, t, k) ==
    \/ s = SubSeq(t, k + 1, Len(t))
    \/ /\ Len(s) = Len(t) - k + 1
       /\ SubSeq(s, 1, Len(s) - 1) = SubSeq(t, k + 1, Len(t))

\* C24: the entries of the in-flight list are always in submission order,
\* and a step takes entries off the list only at its head and only entries
\* that are done: done before the step, or marked done by the callback that
\* makes the step.
C24_HeadOnlyRemoval ==
    /\ [](\A i, j \in 1..Len(processing_frames) :
             i < j => processing_frames[i].frame_in
                         < processing_frames[j].frame_in)
    /\ [][\E k \in 0..Len(processing_frames) :
             /\ DropsHead(FramesIn(processing_frames'),
                          FramesIn(processing_frames), k)
             /\ \A i \in 1..k :
                   \/ processing_frames[i].inference_done
                   \/ \E r \in pending \ pending' :
                         processing_frames[i].frame_in \in Packed(r)]_vars

\* C24 witness: entries have left the in-flight list while its head is not
\* done and an entry behind the head is.
C24_Witness ==
    /\ Len(polled) + Len(processed_frames) >= 1
    /\ Len(processing_frames) >= 2
    /\ ~processing_frames[1].inference_done
    /\ processing_frames[2].inference_done

\* The number of entries of in-flight list l that belong to frame f, and
\* the number of output frames of frame f in processed queue p.
EntriesOf(l, f) == Cardinality({k \in 1..Len(l) : l[k].frame_in = f})
OutputsOf(p, f) == Cardinality({k \in 1..Len(p) : p[k].pts = f})

C26_CountIsBatchSize ==
    engine = "batch" =>
        \A r \in pending : num_processing_frames[r] = batch_size

\* C26, amended: a slot that submit has dispatched successfully has a
\* packed-entry counter equal to batch_size; a slot that flush has
\* dispatched has a counter below batch_size, 0 included.
C26_DispatchCount ==
    [][engine = "batch" =>
          \A r \in pending' \ pending :
              IF ff_dnn_flush_ov
              THEN num_processing_frames'[r] < batch_size
              ELSE num_processing_frames'[r] = batch_size]_vars

\* C26 witness: submit has dispatched a slot holding two frames.
C26_Witness ==
    /\ engine = "batch"
    /\ batch_size = 2
    /\ \E r \in pending : num_processing_frames[r] = 2

\* C27: a slot a completion callback has just returned to the FIFO has its
\* packed-entry counter at 0 and its output name cleared, and every slot in
\* the FIFO behind the head has counter 0.
C27_SlotResetOnReturn ==
    /\ [](\A i \in 2..Len(request_ctx_q) :
             num_processing_frames[request_ctx_q[i]] = 0)
    /\ [][\A r \in pending \ pending' :
             InQueue(request_ctx_q', r) =>
                 /\ num_processing_frames'[r] = 0
                 /\ ~blob_name'[r]]_vars

\* C28: every access to the done flag of an appended entry is made holding
\* frame_q_mutex, and the flag is written by callback threads only.
C28_DoneFlagUnderMutex ==
    \A a \in flag_access :
        /\ "frame_q_mutex" \in a.held
        /\ a.op = "write" => a.thread = "callback"

\* C29 as stated: in the batching engine every slot whose counter is above 0
\* and below batch_size is the head of the request FIFO, and a completion
\* callback that returns its slot appends it at the tail.
C29_PartialSlotAtHead ==
    /\ [](engine = "batch" =>
            \A r \in 1..nireq :
                (0 < num_processing_frames[r]
                   /\ num_processing_frames[r] < batch_size)
                => /\ request_ctx_q # <<>>
                   /\ Head(request_ctx_q) = r)
    /\ [][engine = "batch" =>
            \A r \in pending \ pending' :
                InQueue(request_ctx_q', r)
                => request_ctx_q' = Append(request_ctx_q, r)]_vars

\* A slot that holds some frames but not a full batch.
PartlyFilled(cnt, r) == 0 < cnt[r] /\ cnt[r] < batch_size

\* C29 (amended): in the batching engine at most one slot is partly filled;
\* while it is in the request FIFO it is at the head; a submit that leaves its
\* slot partly filled leaves it at the head; a slot leaves the FIFO partly
\* filled only in the flush dispatch; and a completion callback that returns
\* its slot appends it at the tail.
C29_PartialSlotAtHeadOfPool ==
    /\ [](engine = "batch" =>
            /\ Cardinality({r \in 1..nireq :
                               PartlyFilled(num_processing_frames, r)}) <= 1
            /\ \A i \in 1..Len(request_ctx_q) :
                  PartlyFilled(num_processing_frames, request_ctx_q[i])
                  => i = 1)
    /\ [][engine = "batch" =>
            /\ \A r \in 1..nireq :
                  (/\ PartlyFilled(num_processing_frames', r)
                   /\ num_processing_frames'[r] # num_processing_frames[r])
                  => /\ request_ctx_q # <<>> /\ Head(request_ctx_q) = r
                     /\ request_ctx_q' = request_ctx_q
                     /\ num_processing_frames'[r] = num_processing_frames[r] + 1
            /\ \A r \in 1..nireq :
                  (/\ PartlyFilled(num_processing_frames', r)
                   /\ InQueue(request_ctx_q, r)
                   /\ ~InQueue(request_ctx_q', r))
                  => ff_dnn_flush_ov
            /\ \A r \in pending \ pending' :
                  InQueue(request_ctx_q', r)
                  => request_ctx_q' = Append(request_ctx_q, r)]_vars

\* C29 witness: a completion callback has returned a slot behind a partly
\* filled slot that is at the head of the FIFO.
C29_Witness ==
    /\ engine = "batch"
    /\ Len(request_ctx_q) >= 2
    /\ PartlyFilled(num_processing_frames, request_ctx_q[1])
    /\ Len(polled) + Len(processed_frames) >= 1
    /\ pending = {}

\* The frames of the request that is filled last: the accepted frames after
\* the last full batch.
TailFrames ==
    {accepted[i] : i \in (Len(accepted) - (Len(accepted) % batch_size) + 1)
                         .. Len(accepted)}

\* Entry of frame f is in in-flight list l (done, when d is TRUE).
Listed(l, f, d) ==
    \E i \in 1..Len(l) : l[i].frame_in = f /\ (d => l[i].inference_done)

\* C30: the flush dispatch takes the head slot whatever its counter is; the
\* completion callback of a request dispatched with a counter below
\* batch_size marks done the entries packed in it, as many as the counter
\* says, and no other entry, and returns the slot to the pool with counter 0;
\* and the entries it marked leave the in-flight list.
C30_FlushPartialBatch ==
    /\ [][ff_dnn_flush_ov =>
            /\ request_ctx_q' = Tail(request_ctx_q)
            /\ faults' = faults => Head(request_ctx_q) \in pending']_vars
    /\ [][engine = "batch" =>
            \A r \in pending \ pending' :
               num_processing_frames[r] < batch_size =>
                 /\ Cardinality(Packed(r)) = num_processing_frames[r]
                 /\ \A f \in Packed(r) :
                       ~Listed(processing_frames', f, FALSE)
                       \/ Listed(processing_frames', f, TRUE)
                 /\ \A i \in 1..Len(processing_frames) :
                       (/\ processing_frames[i].frame_in \notin Packed(r)
                        /\ ~processing_frames[i].inference_done)
                       => /\ Listed(processing_frames',
                                    processing_frames[i].frame_in, FALSE)
                          /\ ~Listed(processing_frames',
                                     processing_frames[i].frame_in, TRUE)
                 /\ InQueue(request_ctx_q', r)
                 /\ num_processing_frames'[r] = 0]_vars
    /\ \A f \in 1..MaxFrames :
          (engine = "batch" /\ f \in TailFrames
             /\ Listed(processing_frames, f, TRUE))
          ~> ~Listed(processing_frames, f, FALSE)

\* ------------------------------------------------------- thread-level runs
\*
\* The same engine code with one step per synchronisation operation
\* (pthread_mutex_lock / unlock, SafeQueuePop / Push / PushFront) and the
\* statements between two of them: the filter thread runs submit, poll and
\* the flush dispatch, each worker thread runs completion callbacks.

Owns(t, m) == mutex[m] = t
SetPc(t, pc) == tpc' = [tpc EXCEPT ![t] = pc]

\* Statements at which a thread calls pthread_mutex_lock(&frame_q_mutex),
\* and the statement that follows the lock.
LockQPcs == {"s_lockq", "p_lockq", "cb_lockq"}
AfterLockQ(pc) ==
    CASE pc = "s_lockq" -> "s_enq"
      [] pc = "p_lockq" -> "p_pop"
      [] pc = "cb_lockq" -> "cb_drain"

\* Statements at which a thread calls pthread_mutex_unlock(&frame_q_mutex),
\* and the statement that follows the unlock.  After a failed av_malloc of
\* the entry the batching submit goes on (the result of
\* create_and_enqueue_processing_frame is not looked at) and
\* dnn_interface_send_frame returns AVERROR(EINVAL).
UnlockQPcs == {"s_unlockq", "s_unlockq_fail", "p_unlockq", "cb_unlockq"}
AfterUnlockQ(pc) ==
    CASE pc = "s_unlockq" -> IF engine = "batch" THEN "s_disp" ELSE "x_pop"
      [] pc = "s_unlockq_fail" ->
            IF engine = "batch" THEN "s_disp_noent" ELSE "idle"
      [] pc = "p_unlockq" -> "idle"
      [] pc = "cb_unlockq" -> "cb_ret"

\* Statements at which a thread is inside SafeQueuePop.
PopPcs == {"s_pop", "g_pop", "x_pop", "f_pop"}

\* The filter thread takes the next input frame and calls submit.
t_send_frame ==
    /\ tpc[FilterThread] = "idle"
    /\ ~eos
    /\ nin < MaxFrames
    /\ nin' = nin + 1
    /\ cur' = nin + 1
    /\ SetPc(FilterThread, IF engine = "batch" THEN "s_pop" ELSE "g_pop")
    /\ UNCHANGED <<engine, nireq, batch_size, request_ctx_q,
                   num_processing_frames, processing_frame_array,
                   inference_ctx, blob_name, input_blob, pending,
                   processing_frames, processed_frames, already_flushed, fpc,
                   caller, blob_req, rd, accepted, polled, delivered,
                   outlink_status, last_ret, sync_blob, faults, eof_pts,
                   out_pts, inlink, sws_uv_scale, backend_type, async,
                   execute_model_async, async_run, network_input, model_input,
                   check, cpc, options, built, loadable, init_ret, allocated,
                   released_cb, flag_access, mutex, treq, fslot, eos, in_freed>>

\* ff_dnn_execute_model_async_ov (batching): SafeQueuePop of the head slot.
t_SafeQueuePop_batch ==
    /\ tpc[FilterThread] = "s_pop"
    /\ CanPop(request_ctx_q)
    /\ fslot' = SafeQueueFront(request_ctx_q)
    /\ request_ctx_q' = SafeQueueRest(request_ctx_q)
    /\ SetPc(FilterThread, "s_blob")
    /\ UNCHANGED <<engine, nireq, batch_size, num_processing_frames,
                   processing_frame_array, inference_ctx, blob_name,
                   input_blob, pending, processing_frames, processed_frames,
                   already_flushed, fpc, caller, cur, blob_req, rd, nin,
                   accepted, polled, delivered, outlink_status, last_ret,
                   sync_blob, faults, eof_pts, out_pts, inlink, sws_uv_scale,
                   backend_type, async, execute_model_async, async_run,
                   network_input, model_input, check, cpc, options, built,
                   loadable, init_ret, allocated, released_cb, flag_access,
                   mutex, treq, eos, in_freed>>

\* ff_dnn_execute_model_async_ov (batching): get_input_blob_common, then
\* new_blob_by_batch_idx and pre_proc; on failure the slot is pushed back to
\* the front and the call returns DNN_ERROR.
t_get_input_blob_common ==
    /\ tpc[FilterThread] = "s_blob"
    /\ \E blob_ok \in Outcomes :
         /\ Charge(blob_ok, "input_blob")
         /\ IF blob_ok
            THEN /\ input_blob' =
                      [input_blob EXCEPT
                          ![fslot][new_blob_by_batch_idx(
                                      num_processing_frames[fslot])] = cur]
                 /\ SetPc(FilterThread, "s_lockq")
                 /\ UNCHANGED <<request_ctx_q, fslot>>
            ELSE /\ request_ctx_q' = SafeQueuePushFront(request_ctx_q, fslot)
                 /\ fslot' = 0
                 /\ SetPc(FilterThread, "idle")
                 /\ UNCHANGED input_blob
    /\ UNCHANGED <<engine, nireq, batch_size, num_processing_frames,
                   processing_frame_array, inference_ctx, blob_name, pending,
                   processing_frames, processed_frames, already_flushed, fpc,
                   caller, cur, blob_req, rd, nin, accepted, polled, delivered,
                   outlink_status, last_ret, sync_blob, eof_pts, out_pts,
                   inlink, sws_uv_scale, backend_type, async,
                   execute_model_async, async_run, network_input, model_input,
                   check, cpc, options, built, loadable, init_ret, allocated,
                   released_cb, flag_access, mutex, treq, eos, in_freed>>

\* pthread_mutex_lock(&frame_q_mutex) by thread t: waits while it is held.
t_lock_frame_q_mutex(t) ==
    /\ tpc[t] \in LockQPcs
    /\ mutex["frame_q_mutex"] = Free
    /\ mutex' = [mutex EXCEPT !["frame_q_mutex"] = t]
    /\ SetPc(t, AfterLockQ(tpc[t]))
    /\ UNCHANGED <<engine, nireq, batch_size, request_ctx_q,
                   num_processing_frames, processing_frame_array,
                   inference_ctx, blob_name, input_blob, pending,
                   processing_frames, processed_frames, already_flushed, fpc,
                   caller, cur, blob_req, rd, nin, accepted, polled, delivered,
                   outlink_status, last_ret, sync_blob, faults, eof_pts,
                   out_pts, inlink, sws_uv_scale, backend_type, async,
                   execute_model_async, async_run, network_input, model_input,
                   check, cpc, options, built, loadable, init_ret, allocated,
                   released_cb, flag_access, treq, fslot, eos, in_freed>>

\* An unlock that is skipped on the exit taken when av_malloc failed.
t_unlock_frame_q_mutex_okonly(t) ==
    /\ tpc[t] \in UnlockQPcs
    /\ mutex' = IF tpc[t] = "s_unlockq_fail" THEN mutex
                ELSE [mutex EXCEPT !["frame_q_mutex"] = Free]
    /\ SetPc(t, AfterUnlockQ(tpc[t]))
    /\ UNCHANGED <<engine, nireq, batch_size, request_ctx_q,
                   num_processing_frames, processing_frame_array,
                   inference_ctx, blob_name, input_blob, pending,
                   processing_frames, processed_frames, already_flushed, fpc,
                   caller, cur, blob_req, rd, nin, accepted, polled, delivered,
                   outlink_status, last_ret, sync_blob, faults, eof_pts,
                   out_pts, inlink, sws_uv_scale, backend_type, async,
                   execute_model_async, async_run, network_input, model_input,
                   check, cpc, options, built, loadable, init_ret, allocated,
                   released_cb, flag_access, treq, fslot, eos, in_freed>>

\* pthread_mutex_unlock(&frame_q_mutex) by thread t.
t_unlock_frame_q_mutex(t) ==
    /\ tpc[t] \in UnlockQPcs
    /\ mutex' = [mutex EXCEPT !["frame_q_mutex"] = Free]
    /\ SetPc(t, AfterUnlockQ(tpc[t]))
    /\ UNCHANGED <<engine, nireq, batch_size, request_ctx_q,
                   num_processing_frames, processing_frame_array,
                   inference_ctx, blob_name, input_blob, pending,
                   processing_frames, processed_frames, already_flushed, fpc,
                   caller, cur, blob_req, rd, nin, accepted, polled, delivered,
                   outlink_status, last_ret, sync_blob, faults, eof_pts,
                   out_pts, inlink, sws_uv_scale, backend_type, async,
                   execute_model_async, async_run, network_input, model_input,
                   check, cpc, options, built, loadable, init_ret, allocated,
                   released_cb, flag_access, treq, fslot, eos, in_freed>>

\* A submit that goes on to the dispatch without unlocking frame_q_mutex.
t_push_back_holding ==
    /\ tpc[FilterThread] = "s_enq"
    /\ \E ok \in Outcomes :                  \* av_malloc
         /\ Charge(ok, "malloc")
         /\ IF ok
            THEN /\ processing_frames' =
                      Append(processing_frames,
                             ProcessingFrame(cur,
                                IF engine = "batch" THEN CallerOutFrame(cur)
                                                    ELSE NULLFRAME))
                 /\ accepted' = Append(accepted, cur)
                 /\ SetPc(FilterThread, AfterUnlockQ("s_unlockq"))
            ELSE /\ SetPc(FilterThread, "s_unlockq_fail")
                 /\ UNCHANGED <<processing_frames, accepted>>
    /\ UNCHANGED <<engine, nireq, batch_size, request_ctx_q,
                   num_processing_frames, processing_frame_array,
                   inference_ctx, blob_name, input_blob, pending,
                   processed_frames, already_flushed, fpc, caller, cur,
                   blob_req, rd, nin, polled, delivered, outlink_status,
                   last_ret, sync_blob, eof_pts, out_pts, inlink, sws_uv_scale,
                   backend_type, async, execute_model_async, async_run,
                   network_input, model_input, check, cpc, options, built,
                   loadable, init_ret, allocated, released_cb, flag_access,
                   mutex, treq, fslot, eos, in_freed>>

\* Submit, between lock and unlock of frame_q_mutex: av_malloc of the
\* ProcessingFrame and push_back on the in-flight list
\* (create_and_enqueue_processing_frame, dnn_interface_send_frame).
t_push_back ==
    /\ tpc[FilterThread] = "s_enq"
    /\ \E ok \in Outcomes :                  \* av_malloc
         /\ Charge(ok, "malloc")
         /\ IF ok
            THEN /\ processing_frames' =
                      Append(processing_frames,
                             ProcessingFrame(cur,
                                IF engine = "batch" THEN CallerOutFrame(cur)
                                                    ELSE NULLFRAME))
                 /\ accepted' = Append(accepted, cur)
                 /\ SetPc(FilterThread, "s_unlockq")
            ELSE /\ SetPc(FilterThread, "s_unlockq_fail")
                 /\ UNCHANGED <<processing_frames, accepted>>
    /\ UNCHANGED <<engine, nireq, batch_size, request_ctx_q,
                   num_processing_frames, processing_frame_array,
                   inference_ctx, blob_name, input_blob, pending,
                   processed_frames, already_flushed, fpc, caller, cur,
                   blob_req, rd, nin, polled, delivered, outlink_status,
                   last_ret, sync_blob, eof_pts, out_pts, inlink, sws_uv_scale,
                   backend_type, async, execute_model_async, async_run,
                   network_input, model_input, check, cpc, options, built,
                   loadable, init_ret, allocated, released_cb, flag_access,
                   mutex, treq, fslot, eos, in_freed>>

\* A batching submit that starts the request one frame late.
t_dispatch_or_push_front_late ==
    /\ tpc[FilterThread] \in {"s_disp", "s_disp_noent"}
    /\ LET r == fslot
           n == IF tpc[FilterThread] = "s_disp"
                THEN num_processing_frames[r] + 1
                ELSE num_processing_frames[r]
       IN
       /\ num_processing_frames' = [num_processing_frames EXCEPT ![r] = n]
       /\ processing_frame_array' =
             IF tpc[FilterThread] = "s_disp"
             THEN [processing_frame_array EXCEPT ![r] = Append(@, cur)]
             ELSE processing_frame_array
       /\ blob_name' = [blob_name EXCEPT ![r] = TRUE]
       /\ IF n = batch_size + 1
          THEN /\ \E ok \in Outcomes :       \* ie_infer_request_infer_async
                    /\ Charge(ok, "dispatch")
                    /\ pending' = IF ok THEN pending \cup {r} ELSE pending
               /\ UNCHANGED request_ctx_q
          ELSE /\ request_ctx_q' = SafeQueuePushFront(request_ctx_q, r)
               /\ UNCHANGED <<pending, faults>>
    /\ fslot' = 0
    /\ SetPc(FilterThread, "idle")
    /\ UNCHANGED <<engine, nireq, batch_size, inference_ctx, input_blob,
                   processing_frames, processed_frames, already_flushed, fpc,
                   caller, cur, blob_req, rd, nin, accepted, polled, delivered,
                   outlink_status, last_ret, sync_blob, eof_pts, out_pts,
                   inlink, sws_uv_scale, backend_type, async,
                   execute_model_async, async_run, network_input, model_input,
                   check, cpc, options, built, loadable, init_ret, allocated,
                   released_cb, flag_access, mutex, treq, eos, in_freed>>

\* ff_dnn_execute_model_async_ov (batching), after the entry was appended:
\* the entry goes into processing_frame_array[num_processing_frames++], the
\* output name is set, and the request is started when the counter has
\* reached batch_size, otherwise the slot is pushed back to the front.
t_dispatch_or_push_front ==
    /\ tpc[FilterThread] \in {"s_disp", "s_disp_noent"}
    /\ LET r == fslot
           n == IF tpc[FilterThread] = "s_disp"
                THEN num_processing_frames[r] + 1
                ELSE num_processing_frames[r]
       IN
       /\ num_processing_frames' = [num_processing_frames EXCEPT ![r] = n]
       /\ processing_frame_array' =
             IF tpc[FilterThread] = "s_disp"
             THEN [processing_frame_array EXCEPT ![r] = Append(@, cur)]
             ELSE processing_frame_array
       /\ blob_name' = [blob_name EXCEPT ![r] = TRUE]
       /\ IF n = batch_size
          THEN /\ \E ok \in Outcomes :       \* ie_infer_request_infer_async
                    /\ Charge(ok, "dispatch")
                    /\ pending' = IF ok THEN pending \cup {r} ELSE pending
               /\ UNCHANGED request_ctx_q
          ELSE /\ request_ctx_q' = SafeQueuePushFront(request_ctx_q, r)
               /\ UNCHANGED <<pending, faults>>
    /\ fslot' = 0
    /\ SetPc(FilterThread, "idle")
    /\ UNCHANGED <<engine, nireq, batch_size, inference_ctx, input_blob,
                   processing_frames, processed_frames, already_flushed, fpc,
                   caller, cur, blob_req, rd, nin, accepted, polled, delivered,
                   outlink_status, last_ret, sync_blob, eof_pts, out_pts,
                   inlink, sws_uv_scale, backend_type, async,
                   execute_model_async, async_run, network_input, model_input,
                   check, cpc, options, built, loadable, init_ret, allocated,
                   released_cb, flag_access, mutex, treq, eos, in_freed>>

\* get_input_blob_ov: SafeQueuePop of the head slot.
t_SafeQueuePop_get_input_blob_ov ==
    /\ tpc[FilterThread] = "g_pop"
    /\ CanPop(request_ctx_q)
    /\ fslot' = SafeQueueFront(request_ctx_q)
    /\ request_ctx_q' = SafeQueueRest(request_ctx_q)
    /\ SetPc(FilterThread, "g_push")
    /\ UNCHANGED <<engine, nireq, batch_size, num_processing_frames,
                   processing_frame_array, inference_ctx, blob_name,
                   input_blob, pending, processing_frames, processed_frames,
                   already_flushed, fpc, caller, cur, blob_req, rd, nin,
                   accepted, polled, delivered, outlink_status, last_ret,
                   sync_blob, faults, eof_pts, out_pts, inlink, sws_uv_scale,
                   backend_type, async, execute_model_async, async_run,
                   network_input, model_input, check, cpc, options, built,
                   loadable, init_ret, allocated, released_cb, flag_access,
                   mutex, treq, eos, in_freed>>

\* A get_input_blob_ov that gives the slot back at the tail of the FIFO.
t_SafeQueuePushFront_get_input_blob_ov_tail ==
    /\ tpc[FilterThread] = "g_push"
    /\ request_ctx_q' = SafeQueuePush(request_ctx_q, fslot)
    /\ blob_req' = fslot
    /\ input_blob' = [input_blob EXCEPT ![fslot][1] = cur]
    /\ fslot' = 0
    /\ SetPc(FilterThread, IF engine = "frame" THEN "s_lockq" ELSE "y_exec")
    /\ UNCHANGED <<engine, nireq, batch_size, num_processing_frames,
                   processing_frame_array, inference_ctx, blob_name, pending,
                   processing_frames, processed_frames, already_flushed, fpc,
                   caller, cur, rd, nin, accepted, polled, delivered,
                   outlink_status, last_ret, sync_blob, faults, eof_pts,
                   out_pts, inlink, sws_uv_scale, backend_type, async,
                   execute_model_async, async_run, network_input, model_input,
                   check, cpc, options, built, loadable, init_ret, allocated,
                   released_cb, flag_access, mutex, treq, eos, in_freed>>

\* get_input_blob_ov: SafeQueuePushFront of the slot whose input buffer it
\* returns; dnn_interface_send_frame then runs pre_proc on that buffer.
t_SafeQueuePushFront_get_input_blob_ov ==
    /\ tpc[FilterThread] = "g_push"
    /\ request_ctx_q' = SafeQueuePushFront(request_ctx_q, fslot)
    /\ blob_req' = fslot
    /\ input_blob' = [input_blob EXCEPT ![fslot][1] = cur]
    /\ fslot' = 0
    /\ SetPc(FilterThread, IF engine = "frame" THEN "s_lockq" ELSE "y_exec")
    /\ UNCHANGED <<engine, nireq, batch_size, num_processing_frames,
                   processing_frame_array, inference_ctx, blob_name, pending,
                   processing_frames, processed_frames, already_flushed, fpc,
                   caller, cur, rd, nin, accepted, polled, delivered,
                   outlink_status, last_ret, sync_blob, faults, eof_pts,
                   out_pts, inlink, sws_uv_scale, backend_type, async,
                   execute_model_async, async_run, network_input, model_input,
                   check, cpc, options, built, loadable, init_ret, allocated,
                   released_cb, flag_access, mutex, treq, eos, in_freed>>

\* ff_dnn_execute_model_async_ov(model, inference_ctx, blob_name):
\* SafeQueuePop, attach the inference context, start the request.
t_ff_dnn_execute_model_async_ov_ictx ==
    /\ tpc[FilterThread] = "x_pop"
    /\ CanPop(request_ctx_q)
    /\ LET r == SafeQueueFront(request_ctx_q) IN
       /\ request_ctx_q' = SafeQueueRest(request_ctx_q)
       /\ inference_ctx' = [inference_ctx EXCEPT ![r] = cur]
       /\ blob_name' = [blob_name EXCEPT ![r] = TRUE]
       /\ \E ok \in Outcomes :
            /\ Charge(ok, "dispatch")
            /\ pending' = IF ok THEN pending \cup {r} ELSE pending
    /\ SetPc(FilterThread, "idle")
    /\ UNCHANGED <<engine, nireq, batch_size, num_processing_frames,
                   processing_frame_array, input_blob, processing_frames,
                   processed_frames, already_flushed, fpc, caller, cur,
                   blob_req, rd, nin, accepted, polled, delivered,
                   outlink_status, last_ret, sync_blob, eof_pts, out_pts,
                   inlink, sws_uv_scale, backend_type, async,
                   execute_model_async, async_run, network_input, model_input,
                   check, cpc, options, built, loadable, init_ret, allocated,
                   released_cb, flag_access, mutex, treq, fslot, eos, in_freed>>

\* dnn_interface_send_frame with async_run = 0: execute_model, post_proc and
\* push_back on the processed queue; no mutex is taken.
t_send_frame_sync ==
    /\ tpc[FilterThread] = "y_exec"
    /\ \E ok \in Outcomes :
         /\ Charge(ok, "execute")
         /\ IF ok
            THEN /\ processed_frames' =
                      Append(processed_frames, post_proc(sync_blob, cur))
                 /\ accepted' = Append(accepted, cur)
            ELSE UNCHANGED <<processed_frames, accepted>>
         /\ in_freed' = ff_dnn_interface_send_frame_free(ok, cur, in_freed)
    /\ SetPc(FilterThread, "idle")
    /\ UNCHANGED <<engine, nireq, batch_size, request_ctx_q,
                   num_processing_frames, processing_frame_array,
                   inference_ctx, blob_name, input_blob, pending,
                   processing_frames, already_flushed, fpc, caller, cur,
                   blob_req, rd, nin, polled, delivered, outlink_status,
                   last_ret, sync_blob, eof_pts, out_pts, inlink, sws_uv_scale,
                   backend_type, async, execute_model_async, async_run,
                   network_input, model_input, check, cpc, options, built,
                   loadable, init_ret, allocated, released_cb, flag_access,
                   mutex, treq, fslot, eos>>

\* Poll (dnn_interface_get_frame, ff_dnn_get_async_result_ov): the processed
\* queue was read not empty, the call goes on to lock frame_q_mutex.  When
\* the queue is read empty the call returns without a lock.
t_get_frame ==
    /\ tpc[FilterThread] = "idle"
    /\ processed_frames # <<>>
    /\ SetPc(FilterThread, "p_lockq")
    /\ UNCHANGED <<engine, nireq, batch_size, request_ctx_q,
                   num_processing_frames, processing_frame_array,
                   inference_ctx, blob_name, input_blob, pending,
                   processing_frames, processed_frames, already_flushed, fpc,
                   caller, cur, blob_req, rd, nin, accepted, polled, delivered,
                   outlink_status, last_ret, sync_blob, faults, eof_pts,
                   out_pts, inlink, sws_uv_scale, backend_type, async,
                   execute_model_async, async_run, network_input, model_input,
                   check, cpc, options, built, loadable, init_ret, allocated,
                   released_cb, flag_access, mutex, treq, fslot, eos, in_freed>>

\* Poll, between lock and unlock: front and pop_front of the processed queue.
t_pop_front ==
    /\ tpc[FilterThread] = "p_pop"
    /\ polled' = Append(polled, Head(processed_frames))
    /\ processed_frames' = Tail(processed_frames)
    /\ SetPc(FilterThread, "p_unlockq")
    /\ UNCHANGED <<engine, nireq, batch_size, request_ctx_q,
                   num_processing_frames, processing_frame_array,
                   inference_ctx, blob_name, input_blob, pending,
                   processing_frames, already_flushed, fpc, caller, cur,
                   blob_req, rd, nin, accepted, delivered, outlink_status,
                   last_ret, sync_blob, faults, eof_pts, out_pts, inlink,
                   sws_uv_scale, backend_type, async, execute_model_async,
                   async_run, network_input, model_input, check, cpc, options,
                   built, loadable, init_ret, allocated, released_cb,
                   flag_access, mutex, treq, fslot, eos, in_freed>>

\* End of stream in the batching engine: the adapter calls ff_dnn_flush_ov.
t_send_event_eos ==
    /\ tpc[FilterThread] = "idle"
    /\ engine = "batch"
    /\ ~eos
    /\ eos' = TRUE
    /\ SetPc(FilterThread, "f_pop")
    /\ UNCHANGED <<engine, nireq, batch_size, request_ctx_q,
                   num_processing_frames, processing_frame_array,
                   inference_ctx, blob_name, input_blob, pending,
                   processing_frames, processed_frames, already_flushed, fpc,
                   caller, cur, blob_req, rd, nin, accepted, polled, delivered,
                   outlink_status, last_ret, sync_blob, faults, eof_pts,
                   out_pts, inlink, sws_uv_scale, backend_type, async,
                   execute_model_async, async_run, network_input, model_input,
                   check, cpc, options, built, loadable, init_ret, allocated,
                   released_cb, flag_access, mutex, treq, fslot, in_freed>>

\* ff_dnn_flush_ov: SafeQueuePop of the head slot and start of the request.
t_ff_dnn_flush_ov ==
    /\ tpc[FilterThread] = "f_pop"
    /\ CanPop(request_ctx_q)
    /\ LET r == SafeQueueFront(request_ctx_q) IN
       /\ request_ctx_q' = SafeQueueRest(request_ctx_q)
       /\ \E ok \in Outcomes :
            /\ Charge(ok, "dispatch")
            /\ pending' = IF ok THEN pending \cup {r} ELSE pending
    /\ SetPc(FilterThread, "idle")
    /\ UNCHANGED <<engine, nireq, batch_size, num_processing_frames,
                   processing_frame_array, inference_ctx, blob_name,
                   input_blob, processing_frames, processed_frames,
                   already_flushed, fpc, caller, cur, blob_req, rd, nin,
                   accepted, polled, delivered, outlink_status, last_ret,
                   sync_blob, eof_pts, out_pts, inlink, sws_uv_scale,
                   backend_type, async, execute_model_async, async_run,
                   network_input, model_input, check, cpc, options, built,
                   loadable, init_ret, allocated, released_cb, flag_access,
                   mutex, treq, fslot, eos, in_freed>>

\* The backend calls the completion callback of request r on worker thread w.
cb_begin(w, r) ==
    /\ w \in 1..nireq
    /\ tpc[w] = "idle"
    /\ r \in pending
    /\ pending' = pending \ {r}
    /\ treq' = [treq EXCEPT ![w] = r]
    /\ SetPc(w, "cb_lock")
    /\ UNCHANGED <<engine, nireq, batch_size, request_ctx_q,
                   num_processing_frames, processing_frame_array,
                   inference_ctx, blob_name, input_blob, processing_frames,
                   processed_frames, already_flushed, fpc, caller, cur,
                   blob_req, rd, nin, accepted, polled, delivered,
                   outlink_status, last_ret, sync_blob, faults, eof_pts,
                   out_pts, inlink, sws_uv_scale, backend_type, async,
                   execute_model_async, async_run, network_input, model_input,
                   check, cpc, options, built, loadable, init_ret, allocated,
                   released_cb, flag_access, mutex, fslot, eos, in_freed>>

\* A callback that goes on without waiting for callback_mutex.
cb_lock_callback_mutex_nowait(w) ==
    /\ tpc[w] = "cb_lock"
    /\ mutex' = [mutex EXCEPT !["callback_mutex"] = w]
    /\ SetPc(w, "cb_blob")
    /\ UNCHANGED <<engine, nireq, batch_size, request_ctx_q,
                   num_processing_frames, processing_frame_array,
                   inference_ctx, blob_name, input_blob, pending,
                   processing_frames, processed_frames, already_flushed, fpc,
                   caller, cur, blob_req, rd, nin, accepted, polled, delivered,
                   outlink_status, last_ret, sync_blob, faults, eof_pts,
                   out_pts, inlink, sws_uv_scale, backend_type, async,
                   execute_model_async, async_run, network_input, model_input,
                   check, cpc, options, built, loadable, init_ret, allocated,
                   released_cb, flag_access, treq, fslot, eos, in_freed>>

\* completion_callback / completion_callback_batch_infer:
\* pthread_mutex_lock(&callback_mutex).
cb_lock_callback_mutex(w) ==
    /\ tpc[w] = "cb_lock"
    /\ mutex["callback_mutex"] = Free
    /\ mutex' = [mutex EXCEPT !["callback_mutex"] = w]
    /\ SetPc(w, "cb_blob")
    /\ UNCHANGED <<engine, nireq, batch_size, request_ctx_q,
                   num_processing_frames, processing_frame_array,
                   inference_ctx, blob_name, input_blob, pending,
                   processing_frames, processed_frames, already_flushed, fpc,
                   caller, cur, blob_req, rd, nin, accepted, polled, delivered,
                   outlink_status, last_ret, sync_blob, faults, eof_pts,
                   out_pts, inlink, sws_uv_scale, backend_type, async,
                   execute_model_async, async_run, network_input, model_input,
                   check, cpc, options, built, loadable, init_ret, allocated,
                   released_cb, flag_access, treq, fslot, eos, in_freed>>

\* The callback from the lock of callback_mutex to the lock of frame_q_mutex:
\* the output blob is fetched (goto out when that fails), then the packed
\* entries are post-processed and marked done.  The per-frame callback
\* returns from InferenceCompletionCallback without marking when post_proc
\* fails, and completion_callback goes on to return the slot.
cb_post_proc(w) ==
    /\ tpc[w] = "cb_blob"
    /\ LET r == treq[w] IN
       \E o \in IF engine = "batch" THEN CallbackOutcomes \ {"postproc"}
                                   ELSE CallbackOutcomes :
         /\ Charge(o = "ok",
                   IF o = "noblob" THEN "output_blob" ELSE "post_proc")
         /\ processing_frames' =
               IF o = "noblob" THEN processing_frames
               ELSE IF engine = "batch"
               THEN BatchPostProc(processing_frames,
                                  processing_frame_array[r], input_blob[r])
               ELSE InferenceCompletionCallback(processing_frames,
                       inference_ctx[r], input_blob[r][1], o = "ok")
         /\ SetPc(w, IF o = "noblob" THEN "cb_out"
                     ELSE IF o = "ok" THEN "cb_lockq" ELSE "cb_ret")
    /\ UNCHANGED <<engine, nireq, batch_size, request_ctx_q,
                   num_processing_frames, processing_frame_array,
                   inference_ctx, blob_name, input_blob, pending,
                   processed_frames, already_flushed, fpc, caller, cur,
                   blob_req, rd, nin, accepted, polled, delivered,
                   outlink_status, last_ret, sync_blob, eof_pts, out_pts,
                   inlink, sws_uv_scale, backend_type, async,
                   execute_model_async, async_run, network_input, model_input,
                   check, cpc, options, built, loadable, init_ret, allocated,
                   released_cb, flag_access, mutex, treq, fslot, eos, in_freed>>

\* PushOutput, between lock and unlock of frame_q_mutex.
cb_PushOutput(w) ==
    /\ tpc[w] = "cb_drain"
    /\ processing_frames' = PushOutputProcessing(processing_frames)
    /\ processed_frames' =
          PushOutputProcessed(processing_frames, processed_frames)
    /\ SetPc(w, "cb_unlockq")
    /\ UNCHANGED <<engine, nireq, batch_size, request_ctx_q,
                   num_processing_frames, processing_frame_array,
                   inference_ctx, blob_name, input_blob, pending,
                   already_flushed, fpc, caller, cur, blob_req, rd, nin,
                   accepted, polled, delivered, outlink_status, last_ret,
                   sync_blob, faults, eof_pts, out_pts, inlink, sws_uv_scale,
                   backend_type, async, execute_model_async, async_run,
                   network_input, model_input, check, cpc, options, built,
                   loadable, init_ret, allocated, released_cb, flag_access,
                   mutex, treq, fslot, eos, in_freed>>

\* The callback gives the request back: the batching callback clears the
\* output name and the counter first; SafeQueuePush.
cb_SafeQueuePush(w) ==
    /\ tpc[w] = "cb_ret"
    /\ LET r == treq[w] IN
       /\ request_ctx_q' = SafeQueuePush(request_ctx_q, r)
       /\ IF engine = "batch"
          THEN /\ blob_name' = [blob_name EXCEPT ![r] = FALSE]
               /\ num_processing_frames' =
                     [num_processing_frames EXCEPT ![r] = 0]
               /\ processing_frame_array' =
                     [processing_frame_array EXCEPT ![r] = <<>>]
               /\ UNCHANGED inference_ctx
          ELSE /\ inference_ctx' = [inference_ctx EXCEPT ![r] = 0]
               /\ UNCHANGED <<blob_name, num_processing_frames,
                              processing_frame_array>>
    /\ SetPc(w, "cb_out")
    /\ UNCHANGED <<engine, nireq, batch_size, input_blob, pending,
                   processing_frames, processed_frames, already_flushed, fpc,
                   caller, cur, blob_req, rd, nin, accepted, polled, delivered,
                   outlink_status, last_ret, sync_blob, faults, eof_pts,
                   out_pts, inlink, sws_uv_scale, backend_type, async,
                   execute_model_async, async_run, network_input, model_input,
                   check, cpc, options, built, loadable, init_ret, allocated,
                   released_cb, flag_access, mutex, treq, fslot, eos, in_freed>>

\* out: pthread_mutex_unlock(&callback_mutex); the callback returns.
cb_unlock_callback_mutex(w) ==
    /\ tpc[w] = "cb_out"
    /\ mutex' = [mutex EXCEPT !["callback_mutex"] = Free]
    /\ treq' = [treq EXCEPT ![w] = 0]
    /\ SetPc(w, "idle")
    /\ UNCHANGED <<engine, nireq, batch_size, request_ctx_q,
                   num_processing_frames, processing_frame_array,
                   inference_ctx, blob_name, input_blob, pending,
                   processing_frames, processed_frames, already_flushed, fpc,
                   caller, cur, blob_req, rd, nin, accepted, polled, delivered,
                   outlink_status, last_ret, sync_blob, faults, eof_pts,
                   out_pts, inlink, sws_uv_scale, backend_type, async,
                   execute_model_async, async_run, network_input, model_input,
                   check, cpc, options, built, loadable, init_ret, allocated,
                   released_cb, flag_access, fslot, eos, in_freed>>

\* The thread-level runs start from the configured stage with an RGB input
\* link; the fsync stage calls none of the engine's entry points.
ThreadInit ==
    /\ Init
    /\ engine \in {"frame", "batch", "isync"}
    /\ inlink.format = "RGB24"

ThreadNext ==
    \/ t_send_frame
    \/ t_SafeQueuePop_batch
    \/ t_get_input_blob_common
    \/ \E t \in Threads : t_lock_frame_q_mutex(t)
    \/ \E t \in Threads : t_unlock_frame_q_mutex(t)
    \/ t_push_back
    \/ t_dispatch_or_push_front
    \/ t_SafeQueuePop_get_input_blob_ov
    \/ t_SafeQueuePushFront_get_input_blob_ov
    \/ t_ff_dnn_execute_model_async_ov_ictx
    \/ t_send_frame_sync
    \/ t_get_frame
    \/ t_pop_front
    \/ t_send_event_eos
    \/ t_ff_dnn_flush_ov
    \/ \E w \in Workers, r \in Slots : cb_begin(w, r)
    \/ \E w \in Workers : cb_lock_callback_mutex(w)
    \/ \E w \in Workers : cb_post_proc(w)
    \/ \E w \in Workers : cb_PushOutput(w)
    \/ \E w \in Workers : cb_SafeQueuePush(w)
    \/ \E w \in Workers : cb_unlock_callback_mutex(w)

ThreadSpec == ThreadInit /\ [][ThreadNext]_vars

\* C31: in the batching engine the k-th frame packed into a slot is in batch
\* element k of the slot's input tensor, and every output frame (of a done
\* entry, in the processed queue, or polled) was computed from the batch
\* element that held its own input frame.
C31_OwnBatchElement ==
    engine = "batch" =>
        /\ \A r \in 1..nireq :
              \A k \in 1..Len(processing_frame_array[r]) :
                 input_blob[r][new_blob_by_batch_idx(k - 1)]
                    = processing_frame_array[r][k]
        /\ \A i \in 1..Len(processing_frames) :
              processing_frames[i].inference_done
              => processing_frames[i].frame_out.data
                    = processing_frames[i].frame_in
        /\ \A i \in 1..Len(processed_frames) :
              processed_frames[i].data = processed_frames[i].pts
        /\ \A i \in 1..Len(polled) : polled[i].data = polled[i].pts

\* C31 witness: two frames of one batch of two have been polled, the second
\* one computed from batch element 1.
C31_Witness ==
    /\ engine = "batch"
    /\ batch_size = 2
    /\ Len(polled) >= 2
    /\ polled[2].data = 2

\* Statements of a callback between its lock and its unlock of
\* callback_mutex: fetching the output, post-processing the packed entries,
\* draining the in-flight list, returning the slot.
CompletionSection ==
    {"cb_blob", "cb_lockq", "cb_drain", "cb_unlockq", "cb_ret", "cb_out"}

\* C32: at any time at most one worker thread is inside the completion
\* section of a callback.
C32_OneCallbackAtATime ==
    Cardinality({w \in Workers : tpc[w] \in CompletionSection}) <= 1

\* C32 witness: one callback is inside its completion section while the
\* callback of another request, on another worker thread, waits for
\* callback_mutex.
C32_Witness ==
    \E w, v \in Workers :
        /\ tpc[w] \in CompletionSection
        /\ tpc[v] = "cb_lock"
        /\ treq[w] # treq[v]

\* C33: every step that appends to or pops from the in-flight list or the
\* processed queue is taken by a thread that holds frame_q_mutex.
C33_ListMutationUnderMutex ==
    [][(\/ FramesIn(processing_frames') # FramesIn(processing_frames)
        \/ processed_frames' # processed_frames)
       => \E t \in Threads :
             /\ tpc'[t] # tpc[t]
             /\ Owns(t, "frame_q_mutex")
             /\ mutex' = mutex]_vars

\* C34: a thread whose operation (submit, poll, flush dispatch, completion
\* callback) has returned holds neither frame_q_mutex nor callback_mutex.
C34_MutexesReleased ==
    \A t \in Threads :
        tpc[t] = "idle" => \A m \in Mutexes : ~Owns(t, m)

\* C34 witness: an operation has left through an error exit taken with a
\* mutex held (av_malloc of the entry failed under frame_q_mutex, or the
\* output blob could not be fetched under callback_mutex), and every thread
\* has returned.
C34_Witness ==
    /\ faults # <<>>
    /\ faults[Len(faults)] \in {"malloc", "output_blob"}
    /\ \A t \in Threads : tpc[t] = "idle"
    /\ \A m \in Mutexes : mutex[m] = Free

\* C35: in the batching engine the counter of every slot is between 0 and
\* batch_size and no more than batch_size cells of processing_frame_array
\* are written; the slot a submit is about to index (in the FIFO, or just
\* popped by the filter thread) has a counter below batch_size, which is
\* what the assertion of new_blob_by_batch_idx tests.
C35_CountWithinBatch ==
    engine = "batch" =>
        /\ \A r \in 1..nireq :
              /\ 0 <= num_processing_frames[r]
              /\ num_processing_frames[r] <= batch_size
              /\ Len(processing_frame_array[r]) <= batch_size
        /\ \A i \in 1..Len(request_ctx_q) :
              num_processing_frames[request_ctx_q[i]] < batch_size
        /\ tpc[FilterThread] \in {"s_blob", "s_lockq", "s_enq", "s_unlockq"}
              => num_processing_frames[fslot] < batch_size

\* C35 witness: a full slot is with the backend and the slot at the head of
\* the FIFO, which the next submit will index, is partly filled.
C35_Witness ==
    /\ engine = "batch"
    /\ batch_size = 2
    /\ \E r \in pending : num_processing_frames[r] = batch_size
    /\ request_ctx_q # <<>>
    /\ num_processing_frames[Head(request_ctx_q)] = 1

\* C36: in the per-frame async engine the slot that execute_model_async pops
\* and starts for a frame is the slot whose input buffer get_input_blob gave
\* out and pre_proc filled for that frame; and every request with the
\* backend, or in a callback that has not post-processed yet, holds in its
\* input buffer the frame of its inference context.
C36_FilledSlotIsDispatched ==
    /\ [][t_ff_dnn_execute_model_async_ov_ictx =>
            /\ Head(request_ctx_q) = blob_req
            /\ input_blob[Head(request_ctx_q)][1] = cur]_vars
    /\ [](engine = "frame" =>
            \A r \in pending \cup {treq[w] : w \in {v \in Workers :
                                      tpc[v] \in {"cb_lock", "cb_blob"}}} :
                input_blob[r][1] = inference_ctx[r])

\* C36 witness: a second or later frame has been dispatched on the slot
\* get_input_blob gave out, while a completion callback of another request
\* is running on a worker thread.
C36_Witness ==
    /\ engine = "frame"
    /\ nireq = 2
    /\ cur >= 2
    /\ tpc[FilterThread] = "idle"
    /\ blob_req \in pending
    /\ inference_ctx[blob_req] = cur
    /\ input_blob[blob_req][1] = cur
    /\ \E w \in Workers : tpc[w] \in CompletionSection


\* --------------------------------------- batch callback, backend revision

\* The post-processing loop of the backend file's completion_callback_batch_infer
\* when post_proc fails on packed entry k: the entries before k have their
\* output and are marked done, entry k and the later ones are untouched.
BatchPostProcUntil(l, arr, blob, k) ==
    [i \in 1..Len(l) |->
        LET b == BatchIndex(arr, l[i].frame_in) IN
        IF b = 0 \/ b >= k THEN l[i]
        ELSE [l[i] EXCEPT !.inference_done = TRUE,
                          !.frame_out.data =
                              blob[new_blob_by_batch_idx(b - 1)]]]

\* completion_callback_batch_infer of dnn_backend_openvino.c: as the
\* interface file's callback, but post_proc returns a status and a failure
\* leaves the loop for out: without draining and without returning the slot.
completion_callback_batch_infer_ov(r) ==
    /\ engine = "batch"
    /\ fpc # "closed"
    /\ r \in pending
    /\ pending' = pending \ {r}
    /\ \E o \in CallbackOutcomes :
         /\ Charge(o = "ok", IF o = "noblob" THEN "output_blob" ELSE "post_proc")
         /\ IF o = "noblob"
            THEN UNCHANGED <<processing_frames, processed_frames,
                             request_ctx_q, num_processing_frames,
                             processing_frame_array, blob_name, flag_access>>
            ELSE IF o = "postproc"
            THEN \E k \in 1..num_processing_frames[r] :
                    /\ processing_frames' =
                          BatchPostProcUntil(processing_frames,
                                             processing_frame_array[r],
                                             input_blob[r], k)
                    /\ flag_access' =
                          flag_access \cup CallbackAccesses(k - 1, 0)
                    /\ UNCHANGED <<processed_frames, request_ctx_q,
                                   num_processing_frames,
                                   processing_frame_array, blob_name>>
            ELSE LET l == BatchPostProc(processing_frames,
                                        processing_frame_array[r],
                                        input_blob[r])
                 IN /\ processing_frames' = PushOutputProcessing(l)
                    /\ processed_frames' =
                          PushOutputProcessed(l, processed_frames)
                    /\ flag_access' =
                          flag_access
                          \cup CallbackAccesses(num_processing_frames[r],
                                                Len(processing_frames))
                    /\ blob_name' = [blob_name EXCEPT ![r] = FALSE]
                    /\ num_processing_frames' =
                          [num_processing_frames EXCEPT ![r] = 0]
                    /\ processing_frame_array' =
                          [processing_frame_array EXCEPT ![r] = <<>>]
                    /\ request_ctx_q' = SafeQueuePush(request_ctx_q, r)
    /\ UNCHANGED <<engine, nireq, batch_size, inference_ctx, input_blob,
                   already_flushed, fpc, caller, cur, blob_req, rd, nin,
                   accepted, polled, delivered, outlink_status, last_ret,
                   sync_blob>>
    /\ UNCHANGED <<configVars, eof_pts, out_pts, released_cb>>
    /\ UNCHANGED <<lockVars, in_freed>>

\* The stream with the batch engine's callback taken from the backend file.
OvNext ==
    \/ Next
    \/ \E r \in Slots : completion_callback_batch_infer_ov(r)

OvSpec == Init /\ [][OvNext]_vars

\* C37: whenever no completion callback is executing, the head entry of the
\* in-flight list, if there is one, is not done: every completed prefix has
\* been moved to the processed queue.
C37_HeadNotDone ==
    (\A w \in Workers : tpc[w] = "idle") =>
        (processing_frames # <<>> => ~Head(processing_frames).inference_done)

\* Thread t is inside pthread_mutex_lock on mutex m, which another thread
\* holds.
Waits(t, m) ==
    /\ mutex[m] \notin {Free, t}
    /\ \/ m = "frame_q_mutex" /\ tpc[t] \in LockQPcs
       \/ m = "callback_mutex" /\ tpc[t] = "cb_lock"

\* C38: the filter thread and the callback threads never deadlock on the two
\* mutexes and the FIFO: a callback takes callback_mutex before
\* frame_q_mutex and asks for callback_mutex holding nothing, the filter
\* thread holds no mutex while it is inside SafeQueuePop, no thread waits on
\* a mutex whose holder is inside SafeQueuePop, and no two threads wait on
\* each other's mutex.
C38_NoDeadlock ==
    /\ \A w \in Workers :
          (Owns(w, "frame_q_mutex") \/ tpc[w] = "cb_lockq")
             => Owns(w, "callback_mutex")
    /\ \A w \in Workers :
          tpc[w] = "cb_lock" => \A m \in Mutexes : ~Owns(w, m)
    /\ tpc[FilterThread] \in PopPcs =>
          \A m \in Mutexes : ~Owns(FilterThread, m)
    /\ \A t \in Threads, m \in Mutexes :
          Waits(t, m) => tpc[mutex[m]] \notin PopPcs
    /\ \A t, u \in Threads, m, n \in Mutexes :
          ~(Waits(t, m) /\ mutex[m] = u /\ Waits(u, n) /\ mutex[n] = t)

\* C38 witness: the filter thread is blocked in SafeQueuePop on the empty
\* FIFO while one callback holds both mutexes and another waits for
\* callback_mutex.
C38_Witness ==
    /\ tpc[FilterThread] \in PopPcs
    /\ ~CanPop(request_ctx_q)
    /\ \E w, v \in Workers :
          /\ Owns(w, "callback_mutex")
          /\ Owns(w, "frame_q_mutex")
          /\ Waits(v, "callback_mutex")

\* ------------------------------------------------------------ model teardown

\* OVModel.async: the model is av_mallocz'ed by ff_dnn_load_model_ov and no
\* statement assigns the field (load tests ctx->options.async instead).
ov_model_async == FALSE

\* What ff_dnn_load_model_ov creates for an async model and the model owns.
AsyncObjects == {"infer_requests", "request_ctx_q", "request_ctx",
                 "callback_mutex", "processing_frames", "processed_frames",
                 "frame_q_mutex"}

\* ff_dnn_free_model_ov, called by ff_dnn_interface_release once uninit has
\* flushed.  Under ov_model->async it destroys the mutexes and lists, pops
\* num_reqs slots off the FIFO with SafeQueuePop (blocking while the FIFO is
\* empty) and frees them, destroys the FIFO and frees the infer requests;
\* then, in either case, it frees the model.  Objects of the model that were
\* not released stay allocated with nothing left that refers to them.
ff_dnn_free_model_ov ==
    /\ engine = "batch"
    /\ fpc = "closed"
    /\ "model" \in allocated
    /\ IF ov_model_async
       THEN IF Len(request_ctx_q) >= nireq
            THEN /\ request_ctx_q' = <<>>
                 /\ allocated' = allocated \ {"model"}
                 /\ fpc' = "freed"
            ELSE /\ request_ctx_q' = <<>>
                 /\ allocated' = allocated \cup (AsyncObjects \
                                   {"callback_mutex", "processing_frames",
                                    "processed_frames", "frame_q_mutex"})
                 /\ fpc' = "free_pop"
       ELSE /\ allocated' = (allocated \ {"model"}) \cup AsyncObjects
            /\ fpc' = "freed"
            /\ UNCHANGED request_ctx_q
    /\ UNCHANGED <<engine, nireq, batch_size, num_processing_frames,
                   processing_frame_array, inference_ctx, blob_name,
                   input_blob, pending, processing_frames, processed_frames,
                   already_flushed, caller, cur, blob_req, rd, nin, accepted,
                   polled, delivered, outlink_status, last_ret, sync_blob,
                   faults, eof_pts, out_pts, inlink, sws_uv_scale,
                   backend_type, async, execute_model_async, async_run,
                   network_input, model_input, check, cpc, options, built,
                   loadable, init_ret, released_cb, flag_access, lockVars, in_freed>>

\* The stream followed by the teardown of the model.
FreeNext ==
    \/ Next
    \/ ff_dnn_free_model_ov

FreeSpec == Init /\ [][FreeNext]_vars

\* C39: teardown of an async model terminates and releases every request
\* slot: it never blocks popping the FIFO, and when it has returned no slot
\* is left in the FIFO and none of the async objects made at load (slots,
\* lists, mutexes, infer requests) is still allocated.
C39_TeardownReleasesAll ==
    /\ fpc # "free_pop"
    /\ fpc = "freed" =>
          /\ request_ctx_q = <<>>
          /\ allocated \cap (AsyncObjects \cup {"model"}) = {}

\* Number of times frame f was given to av_frame_free.
TimesFreed(f) == Cardinality({i \in 1..Len(in_freed) : in_freed[i] = f})

\* C40: every input frame the engine took on submit is released exactly once
\* by the engine: never twice, not while an in-flight entry still refers to
\* it, and at the latest when its entry has been destroyed or the stage is
\* closed.
C40_InputReleasedOnce ==
    /\ \A f \in 1..nin : TimesFreed(f) <= 1
    /\ \A i \in 1..Len(processing_frames) :
          TimesFreed(processing_frames[i].frame_in) = 0
    /\ \A i \in 1..Len(accepted) :
          LET f == accepted[i] IN
          (\A j \in 1..Len(processing_frames) :
               processing_frames[j].frame_in # f)
             => TimesFreed(f) = 1
    /\ fpc = "closed" => \A f \in 1..nin : TimesFreed(f) = 1

====
